---- MODULE Spec2Model ----
(***************************************************************************)
(* Model of the native-scan scripts: the printable-run extractor           *)
(* (normalize.py), the raw multi-encoding searcher (scan_native_libs.py)   *)
(* and the term categorizer and aggregator (scan_normalized.py).           *)
(*                                                                         *)
(* Strings are sequences of code points and byte buffers are sequences of  *)
(* integers 0..255, so that lowercasing, stripping, substring search and   *)
(* encoding are computed, not assumed.                                     *)
(***************************************************************************)
EXTENDS Integers, Sequences, FiniteSets, TLC

VARIABLES
    rules,      \* scan_normalized.CATEGORY_RULES, the module-level rule table
    terms,      \* the list returned by scan_normalized.load_search_terms
    calls,      \* log of categorize_term invocations: <<term, result>>
    \* normalize.extract_ascii_strings, one generator object
    ex_data,    \* its argument data, a byte buffer
    ex_min_len, \* its argument min_len
    ex_i,       \* its local i, where the suspended loop resumes
    ex_out,     \* the (offset, text) pairs it has yielded so far
    ex_done,    \* whether it is exhausted
    \* scan_native_libs.find_bytes_all, one call
    fb_data,    \* its argument data
    fb_needle,  \* its argument needle
    fb_max_hits,\* its argument max_hits
    fb_hits,    \* the list it returned
    fb_done,    \* whether it has returned
    \* one run of each script's main(): its locals, the documents it has
    \* written, and what the file system returned to it
    native_main,    \* scan_native_libs.main
    normalize_main, \* normalize.main
    scan_main,      \* scan_normalized.main
    \* scan_normalized.scan_text_file, one call: its arguments, its locals and
    \* what it returned
    scan_text

catVars == <<rules, terms, calls>>

exVars == <<ex_data, ex_min_len, ex_i, ex_out, ex_done>>

fbVars == <<fb_data, fb_needle, fb_max_hits, fb_hits, fb_done>>

mainVars == <<native_main, normalize_main, scan_main>>

vars == <<catVars, exVars, fbVars, mainVars, scan_text>>

-----------------------------------------------------------------------------
(* Bounds of the model *)

\* how many categorize_term invocations a behaviour logs
MaxCalls == 2

\* longest byte buffer handed to extract_ascii_strings
MaxData == 5

\* the byte values buffers are built from: both edges of the printable range,
\* the tab, and a byte that is not ASCII
ByteSamples == {9, 31, 32, 126, 127, 200}

\* longest buffer and longest needle handed to find_bytes_all, and the largest
\* max_hits
MaxFindData == 5

MaxNeedle == 2

MaxHitsArg == 3

\* the byte values those buffers and needles are built from ("a", "b")
FindBytes == {97, 98}

\* most entries of the directory a main() iterates, and most artifacts found
\* under one application
MaxApps == 2

MaxFiles == 2

\* most artifacts one run of a main() reads, over all applications
MaxReads == 2

\* all sequences over S of length at most n
SeqsUpTo(S, n) == UNION {[1..k -> S] : k \in 0..n}

-----------------------------------------------------------------------------
(* str methods, over sequences of code points *)

\* str.lower() of one ASCII character
LowerChar(c) == IF c >= 65 /\ c <= 90 THEN c + 32 ELSE c

\* str.lower()
lower(s) == [i \in 1..Len(s) |-> LowerChar(s[i])]

\* the characters str.strip() removes (str.isspace)
IsSpace(c) == c \in {9, 10, 11, 12, 13, 28, 29, 30, 31, 32, 133, 160}

\* str.strip()
strip(s) ==
    LET keep == {i \in 1..Len(s) : ~IsSpace(s[i])}
    IN  IF keep = {} THEN <<>>
        ELSE LET lo == CHOOSE i \in keep : \A j \in keep : i <= j
                 hi == CHOOSE i \in keep : \A j \in keep : i >= j
             IN  SubSeq(s, lo, hi)

\* str.startswith(prefix)
startswith(s, prefix) ==
    Len(prefix) <= Len(s) /\ SubSeq(s, 1, Len(prefix)) = prefix

\* `needle in hay` for str and for bytes
Contains(hay, needle) ==
    LET h == hay
        n == needle
    IN  \/ n = <<>>
        \/ \E i \in 0..(Len(h) - Len(n)) :
              h[i + 1] = n[1] /\ SubSeq(h, i + 1, i + Len(n)) = n

\* the line boundaries str.splitlines() recognises
IsLineBreak(c) == c \in {10, 11, 12, 13, 28, 29, 30, 133, 8232, 8233}

\* str.splitlines(): lines without their terminators, "\r\n" one terminator,
\* no empty last line after a final terminator
splitlines(s) ==
    LET n      == Len(s)
        \* where a terminator starts (the "\n" of "\r\n" starts none)
        T      == {i \in 1..n : IsLineBreak(s[i]) /\ ~(s[i] = 10 /\ i > 1 /\ s[i - 1] = 13)}
        k      == Cardinality(T)
        nth(j) == CHOOSE t \in T : Cardinality({u \in T : u < t}) = j - 1
        end(t) == IF s[t] = 13 /\ t < n /\ s[t + 1] = 10 THEN t + 1 ELSE t
        from(j) == IF j = 1 THEN 1 ELSE end(nth(j - 1)) + 1
        closed == [j \in 1..k |-> SubSeq(s, from(j), nth(j) - 1)]
    IN  IF from(k + 1) <= n THEN Append(closed, SubSeq(s, from(k + 1), n)) ELSE closed

-----------------------------------------------------------------------------
(* scan_normalized.py: the rule table *)

\* "Foveated Rendering"
CatFoveatedRendering == <<70, 111, 118, 101, 97, 116, 101, 100, 32, 82, 101, 110, 100, 101, 114, 105, 110, 103>>

\* "Raw Data Collection"
CatRawDataCollection == <<82, 97, 119, 32, 68, 97, 116, 97, 32, 67, 111, 108, 108, 101, 99, 116, 105, 111, 110>>

\* "Eye-Tracking Enablement"
CatEyeTrackingEnablement == <<69, 121, 101, 45, 84, 114, 97, 99, 107, 105, 110, 103, 32, 69, 110, 97, 98, 108, 101, 109, 101, 110, 116>>

\* "Gaze Interactions"
CatGazeInteractions == <<71, 97, 122, 101, 32, 73, 110, 116, 101, 114, 97, 99, 116, 105, 111, 110, 115>>

\* "Gaze Geometry"
CatGazeGeometry == <<71, 97, 122, 101, 32, 71, 101, 111, 109, 101, 116, 114, 121>>

\* "Biometric Signals & Metrics"
CatBiometricSignalsMetrics == <<66, 105, 111, 109, 101, 116, 114, 105, 99, 32, 83, 105, 103, 110, 97, 108, 115, 32, 38, 32, 77, 101, 116, 114, 105, 99, 115>>

\* rule 1: "Foveated Rendering"
Rule1Exact ==
    { <<102, 111, 118, 101, 97, 116, 101, 100>>,  \* "foveated"
      <<102, 111, 118, 101, 97, 116, 101, 100, 32, 100, 105, 115, 112, 108, 97, 121>>,  \* "foveated display"
      <<102, 111, 118, 101, 97, 116, 101, 100, 32, 103, 114, 97, 112, 104, 105, 99, 115>>,  \* "foveated graphics"
      <<102, 111, 118, 101, 97, 116, 101, 100, 32, 114, 101, 110, 100, 101, 114, 105, 110, 103>>,  \* "foveated rendering"
      <<102, 111, 118, 101, 97, 116, 101, 100, 32, 114, 101, 110, 100, 101, 114, 105, 110, 103, 32, 109, 111, 100, 101>>,  \* "foveated rendering mode"
      <<102, 111, 118, 101, 97, 116, 105, 111, 110>> }  \* "foveation"
Rule1Substr ==
    { <<102, 111, 118, 101, 97, 116>> }  \* "foveat"

\* rule 2: "Raw Data Collection"
Rule2Exact ==
    { <<69, 121, 101, 84, 114, 97, 99, 107, 105, 110, 103, 80, 114, 111, 118, 105, 100, 101, 114>>,  \* "EyeTrackingProvider"
      <<69, 121, 101, 84, 114, 97, 99, 107, 105, 110, 103, 83, 116, 97, 116, 101>>,  \* "EyeTrackingState"
      <<71, 97, 122, 101, 80, 114, 111, 118, 105, 100, 101, 114>>,  \* "GazeProvider"
      <<71, 101, 116, 69, 121, 101, 71, 97, 122, 101, 68, 97, 116, 97>>,  \* "GetEyeGazeData"
      <<111, 118, 114, 112, 69, 121, 101, 71, 97, 122, 101>>,  \* "ovrpEyeGaze"
      <<111, 118, 114, 112, 69, 121, 101, 71, 97, 122, 101, 115, 83, 116, 97, 116, 101>>,  \* "ovrpEyeGazesState"
      <<111, 118, 114, 112, 69, 121, 101, 84, 114, 97, 99, 107, 105, 110, 103, 83, 116, 97, 116, 101>>,  \* "ovrpEyeTrackingState"
      <<111, 118, 114, 112, 95, 71, 101, 116, 69, 121, 101, 71, 97, 122, 101, 115, 83, 116, 97, 116, 101>>,  \* "ovrp_GetEyeGazesState"
      <<111, 118, 114, 112, 95, 71, 101, 116, 69, 121, 101, 84, 114, 97, 99, 107, 105, 110, 103, 83, 116, 97, 116, 101>>,  \* "ovrp_GetEyeTrackingState"
      <<111, 118, 114, 112, 95, 71, 101, 116, 69, 121, 101, 84, 114, 97, 99, 107, 105, 110, 103, 83, 116, 97, 116, 101, 50>> }  \* "ovrp_GetEyeTrackingState2"
Rule2Substr ==
    { <<69, 121, 101, 84, 114, 97, 99, 107, 105, 110, 103, 80, 114, 111, 118, 105, 100, 101, 114>>,  \* "EyeTrackingProvider"
      <<69, 121, 101, 84, 114, 97, 99, 107, 105, 110, 103, 83, 116, 97, 116, 101>>,  \* "EyeTrackingState"
      <<71, 101, 116, 69, 121, 101, 71, 97, 122, 101, 68, 97, 116, 97>>,  \* "GetEyeGazeData"
      <<111, 118, 114, 112, 69, 121, 101>>,  \* "ovrpEye"
      <<111, 118, 114, 112, 95, 71, 101, 116, 69, 121, 101>> }  \* "ovrp_GetEye"

\* rule 3: "Eye-Tracking Enablement"
Rule3Exact ==
    { <<69, 121, 101, 84, 114, 97, 99, 107, 101, 100>>,  \* "EyeTracked"
      <<70, 79, 99, 117, 108, 117, 115, 69, 121, 101, 84, 114, 97, 99, 107, 105, 110, 103>>,  \* "FOculusEyeTracking"
      <<73, 79, 99, 117, 108, 117, 115, 69, 121, 101, 84, 114, 97, 99, 107, 101, 114, 77, 111, 100, 117, 108, 101>>,  \* "IOculusEyeTrackerModule"
      <<88, 82, 95, 69, 88, 84, 95, 101, 121, 101, 95, 103, 97, 122, 101, 95, 105, 110, 116, 101, 114, 97, 99, 116, 105, 111, 110>>,  \* "XR_EXT_eye_gaze_interaction"
      <<88, 114, 69, 121, 101, 71, 97, 122, 101>>,  \* "XrEyeGaze"
      <<88, 114, 69, 121, 101, 71, 97, 122, 101, 69, 88, 84>>,  \* "XrEyeGazeEXT"
      <<88, 114, 69, 121, 101, 71, 97, 122, 101, 115, 69, 88, 84>>,  \* "XrEyeGazesEXT"
      <<88, 114, 69, 121, 101, 71, 97, 122, 101, 115, 73, 110, 102, 111, 69, 88, 84>>,  \* "XrEyeGazesInfoEXT"
      <<101, 121, 101, 32, 116, 114, 97, 99, 107, 105, 110, 103>>,  \* "eye tracking"
      <<101, 121, 101, 71, 97, 122, 101, 83, 117, 112, 112, 111, 114, 116, 101, 100>>,  \* "eyeGazeSupported"
      <<101, 121, 101, 84, 114, 97, 99, 107, 105, 110, 103, 83, 117, 112, 112, 111, 114, 116, 101, 100>>,  \* "eyeTrackingSupported"
      <<111, 118, 114, 112, 95, 71, 101, 116, 69, 121, 101, 84, 114, 97, 99, 107, 105, 110, 103, 69, 110, 97, 98, 108, 101, 100>>,  \* "ovrp_GetEyeTrackingEnabled"
      <<111, 118, 114, 112, 95, 83, 101, 116, 69, 121, 101, 84, 114, 97, 99, 107, 105, 110, 103, 69, 110, 97, 98, 108, 101, 100>>,  \* "ovrp_SetEyeTrackingEnabled"
      <<120, 114, 76, 111, 99, 97, 116, 101, 69, 121, 101, 71, 97, 122, 101, 115>>,  \* "xrLocateEyeGazes"
      <<120, 114, 76, 111, 99, 97, 116, 101, 69, 121, 101, 71, 97, 122, 101, 115, 69, 88, 84>> }  \* "xrLocateEyeGazesEXT"
Rule3Substr ==
    { <<71, 101, 116, 69, 121, 101, 84, 114, 97, 99, 107, 105, 110, 103, 69, 110, 97, 98, 108, 101, 100>>,  \* "GetEyeTrackingEnabled"
      <<79, 99, 117, 108, 117, 115, 69, 121, 101>>,  \* "OculusEye"
      <<83, 101, 116, 69, 121, 101, 84, 114, 97, 99, 107, 105, 110, 103, 69, 110, 97, 98, 108, 101, 100>>,  \* "SetEyeTrackingEnabled"
      <<83, 117, 112, 112, 111, 114, 116, 101, 100>> }  \* "Supported"

\* rule 4: "Gaze Interactions"
Rule4Exact ==
    { <<69, 121, 101, 71, 97, 122, 101, 73, 110, 116, 101, 114, 97, 99, 116, 111, 114>>,  \* "EyeGazeInteractor"
      <<71, 97, 122, 101, 73, 110, 116, 101, 114, 97, 99, 116, 111, 114>>,  \* "GazeInteractor"
      <<100, 119, 101, 108, 108, 32, 116, 105, 109, 101>>,  \* "dwell time"
      <<105, 110, 116, 101, 114, 97, 99, 116, 105, 111, 110, 32, 115, 101, 108, 101, 99, 116, 105, 111, 110>> }  \* "interaction selection"
Rule4Substr ==
    { <<73, 110, 116, 101, 114, 97, 99, 116, 111, 114>>,  \* "Interactor"
      <<100, 119, 101, 108, 108>>,  \* "dwell"
      <<103, 97, 122, 101, 32, 105, 110, 112, 117, 116>>,  \* "gaze input"
      <<115, 101, 108, 101, 99, 116, 105, 111, 110>> }  \* "selection"

\* rule 5: "Gaze Geometry"
Rule5Exact ==
    { <<69, 121, 101, 71, 97, 122, 101, 68, 105, 114, 101, 99, 116, 105, 111, 110>>,  \* "EyeGazeDirection"
      <<69, 121, 101, 71, 97, 122, 101, 80, 111, 115, 105, 116, 105, 111, 110>>,  \* "EyeGazePosition"
      <<69, 121, 101, 71, 97, 122, 101, 82, 111, 116, 97, 116, 105, 111, 110>>,  \* "EyeGazeRotation"
      <<69, 121, 101, 79, 112, 101, 110, 65, 109, 111, 117, 110, 116>>,  \* "EyeOpenAmount"
      <<101, 121, 101, 79, 112, 101, 110, 110, 101, 115, 115>> }  \* "eyeOpenness"
Rule5Substr ==
    { <<69, 121, 101, 79, 112, 101, 110>>,  \* "EyeOpen"
      <<71, 97, 122, 101, 68, 105, 114, 101, 99, 116, 105, 111, 110>>,  \* "GazeDirection"
      <<71, 97, 122, 101, 80, 111, 115, 105, 116, 105, 111, 110>>,  \* "GazePosition"
      <<71, 97, 122, 101, 82, 111, 116, 97, 116, 105, 111, 110>> }  \* "GazeRotation"

\* rule 6: "Biometric Signals & Metrics"
Rule6Exact ==
    { <<66, 108, 105, 110, 107, 68, 117, 114, 97, 116, 105, 111, 110>>,  \* "BlinkDuration"
      <<66, 108, 105, 110, 107, 82, 97, 116, 101>>,  \* "BlinkRate"
      <<80, 117, 112, 105, 108, 68, 105, 108, 97, 116, 105, 111, 110>>,  \* "PupilDilation"
      <<83, 97, 99, 99, 97, 100, 101, 65, 109, 112, 108, 105, 116, 117, 100, 101>>,  \* "SaccadeAmplitude"
      <<83, 97, 99, 99, 97, 100, 101, 86, 101, 108, 111, 99, 105, 116, 121>>,  \* "SaccadeVelocity"
      <<97, 116, 116, 101, 110, 116, 105, 111, 110, 32, 109, 101, 97, 115, 117, 114, 101, 109, 101, 110, 116>>,  \* "attention measurement"
      <<97, 116, 116, 101, 110, 116, 105, 111, 110, 83, 99, 111, 114, 101>>,  \* "attentionScore"
      <<102, 105, 120, 97, 116, 105, 111, 110>>,  \* "fixation"
      <<102, 105, 120, 97, 116, 105, 111, 110, 32, 100, 117, 114, 97, 116, 105, 111, 110>>,  \* "fixation duration"
      <<102, 111, 99, 117, 115, 101, 100, 32, 111, 98, 106, 101, 99, 116>> }  \* "focused object"
Rule6Substr ==
    { <<66, 108, 105, 110, 107>>,  \* "Blink"
      <<80, 117, 112, 105, 108>>,  \* "Pupil"
      <<83, 97, 99, 99, 97, 100, 101>>,  \* "Saccade"
      <<97, 116, 116, 101, 110, 116, 105, 111, 110>>,  \* "attention"
      <<102, 105, 120, 97, 116, 105, 111, 110>>,  \* "fixation"
      <<102, 111, 99, 117, 115, 101, 100, 32, 111, 98, 106, 101, 99, 116>> }  \* "focused object"

CATEGORY_RULES ==
    << [category |-> CatFoveatedRendering, exact_terms |-> Rule1Exact, substr_patterns |-> Rule1Substr],
       [category |-> CatRawDataCollection, exact_terms |-> Rule2Exact, substr_patterns |-> Rule2Substr],
       [category |-> CatEyeTrackingEnablement, exact_terms |-> Rule3Exact, substr_patterns |-> Rule3Substr],
       [category |-> CatGazeInteractions, exact_terms |-> Rule4Exact, substr_patterns |-> Rule4Substr],
       [category |-> CatGazeGeometry, exact_terms |-> Rule5Exact, substr_patterns |-> Rule5Substr],
       [category |-> CatBiometricSignalsMetrics, exact_terms |-> Rule6Exact, substr_patterns |-> Rule6Substr] >>

\* scan_normalized.py:8
MAX_TERMS == 500

-----------------------------------------------------------------------------
(* scan_normalized.py: categorize_term *)

\* the for loop over CATEGORY_RULES from rule k on, and the fall-through return
RECURSIVE categorize_rules(_, _, _)
categorize_rules(table, tl, k) ==
    IF k > Len(table) THEN <<CatEyeTrackingEnablement, "low">>
    ELSE IF \E e \in table[k].exact_terms : Len(e) = Len(tl) /\ tl = lower(e)
         THEN <<table[k].category, "high">>
         ELSE IF \E p \in table[k].substr_patterns : Contains(tl, lower(p))
              THEN <<table[k].category, "medium">>
              ELSE categorize_rules(table, tl, k + 1)

\* categorize_term with every rule's exact set tried before any substring pattern
RECURSIVE categorize_exact_pass(_, _, _)
categorize_exact_pass(table, tl, k) ==
    IF k > Len(table) THEN <<CatEyeTrackingEnablement, "low">>
    ELSE IF \E e \in table[k].exact_terms : Len(e) = Len(tl) /\ tl = lower(e)
         THEN <<table[k].category, "high">>
         ELSE categorize_exact_pass(table, tl, k + 1)

RECURSIVE categorize_substr_pass(_, _, _)
categorize_substr_pass(table, tl, k) ==
    IF k > Len(table) THEN <<CatEyeTrackingEnablement, "low">>
    ELSE IF \E p \in table[k].substr_patterns : Contains(tl, lower(p))
         THEN <<table[k].category, "medium">>
         ELSE categorize_substr_pass(table, tl, k + 1)

categorize_term_exact_first(term) ==
    LET tl == lower(strip(term))
        hi == categorize_exact_pass(rules, tl, 1)
    IN  IF hi[2] = "high" THEN hi ELSE categorize_substr_pass(rules, tl, 1)

\* categorize_term comparing the term as written, without lowercasing it
categorize_term_case_sensitive(term) == categorize_rules(rules, strip(term), 1)

-----------------------------------------------------------------------------
(* The heuristic fallback of the design text (4.3): keyword fragments tried *)
(* in a fixed order once no rule matched, each naming a category.           *)

\* 'fove'
FragFove == <<102, 111, 118, 101>>

\* 'xr_'
FragXr == <<120, 114, 95>>

\* 'ovrp'
FragOvrp == <<111, 118, 114, 112>>

\* 'attention'
FragAttention == <<97, 116, 116, 101, 110, 116, 105, 111, 110>>

\* 'provider'
FragProvider == <<112, 114, 111, 118, 105, 100, 101, 114>>

\* 'rotation'
FragRotation == <<114, 111, 116, 97, 116, 105, 111, 110>>

\* 'eye tracking'
FragEyeTracking == <<101, 121, 101, 32, 116, 114, 97, 99, 107, 105, 110, 103>>

HEURISTIC_FRAGMENTS ==
    << [fragment |-> FragFove,        category |-> CatFoveatedRendering],
       [fragment |-> FragXr,          category |-> CatEyeTrackingEnablement],
       [fragment |-> FragOvrp,        category |-> CatRawDataCollection],
       [fragment |-> FragAttention,   category |-> CatBiometricSignalsMetrics],
       [fragment |-> FragProvider,    category |-> CatGazeInteractions],
       [fragment |-> FragRotation,    category |-> CatGazeGeometry],
       [fragment |-> FragEyeTracking, category |-> CatEyeTrackingEnablement] >>

HeuristicHits(tl) ==
    {k \in 1..Len(HEURISTIC_FRAGMENTS) : Contains(tl, HEURISTIC_FRAGMENTS[k].fragment)}

heuristic_fallback(tl) ==
    IF HeuristicHits(tl) = {} THEN <<CatEyeTrackingEnablement, "low">>
    ELSE LET k == CHOOSE x \in HeuristicHits(tl) : \A y \in HeuristicHits(tl) : x <= y
         IN  <<HEURISTIC_FRAGMENTS[k].category, "low">>

\* categorize_term with that fallback in place of the direct catch-all
categorize_term_heuristic(term) ==
    LET tl == lower(strip(term))
        r  == categorize_rules(rules, tl, 1)
    IN  IF r[2] = "low" THEN heuristic_fallback(tl) ELSE r

categorize_term(term) ==
    LET t  == strip(term)
        tl == lower(t)
    IN  categorize_rules(rules, tl, 1)

-----------------------------------------------------------------------------
(* scan_normalized.py: load_search_terms *)

RECURSIVE load_lines(_, _, _)
load_lines(lines, i, acc) ==
    IF i > Len(lines) \/ Len(acc) >= MAX_TERMS THEN acc
    ELSE LET line == strip(lines[i])
         IN  IF line = <<>> \/ startswith(line, <<35>>)
             THEN load_lines(lines, i + 1, acc)
             ELSE load_lines(lines, i + 1, Append(acc, line))

load_search_terms(file_text) == load_lines(splitlines(file_text), 1, <<>>)

-----------------------------------------------------------------------------
(* Term files the runs are given *)

\* '# eye tracking terms\novrp_GetEyeTrackingEnabled\nOVRP_GETEYETRACKINGENABLED\n\nfoveation\n  Foveation \neyeGazeSupported\nEyeGazeInteractor\nHeadRotation\nPupilSize\nFoveatedEyeTrackingSupported\n'
TermsFileA == <<35, 32, 101, 121, 101, 32, 116, 114, 97, 99, 107, 105, 110, 103, 32, 116, 101, 114, 109, 115, 10, 111, 118, 114, 112, 95, 71, 101, 116, 69, 121, 101, 84, 114, 97, 99, 107, 105, 110, 103, 69, 110, 97, 98, 108, 101, 100, 10, 79, 86, 82, 80, 95, 71, 69, 84, 69, 89, 69, 84, 82, 65, 67, 75, 73, 78, 71, 69, 78, 65, 66, 76, 69, 68, 10, 10, 102, 111, 118, 101, 97, 116, 105, 111, 110, 10, 32, 32, 70, 111, 118, 101, 97, 116, 105, 111, 110, 32, 10, 101, 121, 101, 71, 97, 122, 101, 83, 117, 112, 112, 111, 114, 116, 101, 100, 10, 69, 121, 101, 71, 97, 122, 101, 73, 110, 116, 101, 114, 97, 99, 116, 111, 114, 10, 72, 101, 97, 100, 82, 111, 116, 97, 116, 105, 111, 110, 10, 80, 117, 112, 105, 108, 83, 105, 122, 101, 10, 70, 111, 118, 101, 97, 116, 101, 100, 69, 121, 101, 84, 114, 97, 99, 107, 105, 110, 103, 83, 117, 112, 112, 111, 114, 116, 101, 100, 10>>

\* 'EyeTrackingState\neyetrackingstate\ndwell time\nGazeProviderSupported\ngaze\nGaze\nXrEyeGaze\nAttentionProvider\neye tracking\n'
TermsFileB == <<69, 121, 101, 84, 114, 97, 99, 107, 105, 110, 103, 83, 116, 97, 116, 101, 10, 101, 121, 101, 116, 114, 97, 99, 107, 105, 110, 103, 115, 116, 97, 116, 101, 10, 100, 119, 101, 108, 108, 32, 116, 105, 109, 101, 10, 71, 97, 122, 101, 80, 114, 111, 118, 105, 100, 101, 114, 83, 117, 112, 112, 111, 114, 116, 101, 100, 10, 103, 97, 122, 101, 10, 71, 97, 122, 101, 10, 88, 114, 69, 121, 101, 71, 97, 122, 101, 10, 65, 116, 116, 101, 110, 116, 105, 111, 110, 80, 114, 111, 118, 105, 100, 101, 114, 10, 101, 121, 101, 32, 116, 114, 97, 99, 107, 105, 110, 103, 10>>

\* 'ovrp_GetEyeTrackingEnabled'
TermOvrpGetEyeTrackingEnabled == <<111, 118, 114, 112, 95, 71, 101, 116, 69, 121, 101, 84, 114, 97, 99, 107, 105, 110, 103, 69, 110, 97, 98, 108, 101, 100>>

TermFiles == {TermsFileA, TermsFileB}

-----------------------------------------------------------------------------
(* The parts of the program a specification does not run stay as they are   *)
(* before any of their code has run.                                        *)

\* the rule table as defined, no term list loaded, categorize_term not called
IdleCat ==
    /\ rules = CATEGORY_RULES
    /\ terms = <<>>
    /\ calls = <<>>

\* no generator of extract_ascii_strings exists
IdleExtract ==
    /\ ex_data = <<>>
    /\ ex_min_len = 0
    /\ ex_i = 0
    /\ ex_out = <<>>
    /\ ex_done = TRUE

\* no call of find_bytes_all is under way
IdleFind ==
    /\ fb_data = <<>>
    /\ fb_needle = <<>>
    /\ fb_max_hits = 0
    /\ fb_hits = <<>>
    /\ fb_done = TRUE

\* no main() has started
IdleMain == [pc |-> "idle"]

IdleMains ==
    /\ native_main = IdleMain
    /\ normalize_main = IdleMain
    /\ scan_main = IdleMain
    /\ scan_text = IdleMain

-----------------------------------------------------------------------------
(* Specification SpecCat: a run loads a term file and categorizes its terms  *)
(* in any order, any number of times.                                       *)

InitCat ==
    /\ rules = CATEGORY_RULES
    /\ \E f \in TermFiles : terms = load_search_terms(f)
    /\ calls = <<>>
    /\ IdleExtract
    /\ IdleFind
    /\ IdleMains

CategorizeTerm ==
    /\ Len(calls) < MaxCalls
    /\ \E i \in 1..Len(terms) :
         calls' = Append(calls, [term |-> terms[i], result |-> categorize_term(terms[i])])
    /\ UNCHANGED <<rules, terms, exVars, fbVars, mainVars, scan_text>>

NextCat == CategorizeTerm

SpecCat == InitCat /\ [][NextCat]_vars

-----------------------------------------------------------------------------
(* Claims about categorize_term, under SpecCat *)

NoRules == Len(CATEGORY_RULES)

MatchesExact(k, tl) == \E e \in CATEGORY_RULES[k].exact_terms : lower(e) = tl

MatchesSubstr(k, tl) == \E p \in CATEGORY_RULES[k].substr_patterns : Contains(tl, lower(p))

Matches(k, tl) == MatchesExact(k, tl) \/ MatchesSubstr(k, tl)

AnyRuleMatches(tl) == \E k \in 1..NoRules : Matches(k, tl)

FirstMatchingRule(tl) ==
    CHOOSE k \in 1..NoRules : Matches(k, tl) /\ \A j \in 1..(k - 1) : ~Matches(j, tl)

\* C1: every logged result of a term some rule matches is the category of the
\* first rule, in table order, that matches the lowercased term exactly or by
\* substring, at "high" if that rule matches exactly and "medium" otherwise;
\* so whenever an earlier rule matches only by substring and a later rule holds
\* the term in its exact set, the earlier rule's category is returned at
\* "medium" (ovrp_GetEyeTrackingEnabled: Raw Data Collection, medium).
C1_FirstMatchingRuleWins ==
    \A i \in 1..Len(calls) :
        LET tl == lower(calls[i].term)
        IN  /\ AnyRuleMatches(tl) =>
                 LET k == FirstMatchingRule(tl)
                 IN  calls[i].result =
                         <<CATEGORY_RULES[k].category,
                           IF MatchesExact(k, tl) THEN "high" ELSE "medium">>
            /\ \A a, b \in 1..NoRules :
                 (/\ a < b
                  /\ \A j \in 1..(a - 1) : ~Matches(j, tl)
                  /\ MatchesSubstr(a, tl) /\ ~MatchesExact(a, tl)
                  /\ MatchesExact(b, tl))
                 => calls[i].result = <<CATEGORY_RULES[a].category, "medium">>
            /\ calls[i].term = TermOvrpGetEyeTrackingEnabled
                 => calls[i].result = <<CatRawDataCollection, "medium">>

\* a logged call of ovrp_GetEyeTrackingEnabled, which rule 2 matches only by
\* substring and rule 3 exactly
C1_Witness ==
    \E i \in 1..Len(calls) :
        LET tl == lower(calls[i].term)
        IN  /\ calls[i].term = TermOvrpGetEyeTrackingEnabled
            /\ ~Matches(1, tl)
            /\ MatchesSubstr(2, tl) /\ ~MatchesExact(2, tl)
            /\ MatchesExact(3, tl)

C3_PureCaseInsensitive ==
    /\ rules = CATEGORY_RULES
    /\ \A i, j \in 1..Len(calls) :
         lower(calls[i].term) = lower(calls[j].term) => calls[i].result = calls[j].result

\* two logged invocations, one after the other, of terms that differ in casing
\* only
C3_Witness ==
    \E i, j \in 1..Len(calls) :
        /\ i < j
        /\ calls[i].term # calls[j].term
        /\ lower(calls[i].term) = lower(calls[j].term)

-----------------------------------------------------------------------------
(* normalize.py: extract_ascii_strings *)

\* normalize.py:6
MIN_ASCII_LEN == 4

\* is_printable_ascii without the tab
is_printable_ascii_no_tab(b) == 32 <= b /\ b <= 126

is_printable_ascii(b) == b = 9 \/ (32 <= b /\ b <= 126)

\* bytes.decode("ascii", errors="ignore"): bytes that are not ASCII are dropped
decode_ascii_ignore(buf) == SelectSeq(buf, LAMBDA b : b < 128)

\* the inner while loop: the end (exclusive, 0-based) of the printable run at i
RECURSIVE run_end(_, _)
run_end(data, i) ==
    IF i < Len(data) /\ is_printable_ascii(data[i + 1]) THEN run_end(data, i + 1) ELSE i

\* the generator yielding every run it closes, whatever its length
RECURSIVE extract_resume_no_min(_, _, _)
extract_resume_no_min(data, min_len, i) ==
    IF i >= Len(data) THEN [stop |-> TRUE, i |-> i]
    ELSE IF is_printable_ascii(data[i + 1])
         THEN LET j == run_end(data, i)
              IN  [stop |-> FALSE, i |-> j, start |-> i,
                   s |-> decode_ascii_ignore(SubSeq(data, i + 1, j))]
         ELSE extract_resume_no_min(data, min_len, i + 1)

\* the generator resumed with its loop variable at i (0-based, as in the code):
\* it runs to its next yield, or to the end of the buffer
RECURSIVE extract_resume(_, _, _)
extract_resume(data, min_len, i) ==
    IF i >= Len(data) THEN [stop |-> TRUE, i |-> i]
    ELSE IF is_printable_ascii(data[i + 1])
         THEN LET start == i
                  j     == run_end(data, i)
                  buf   == SubSeq(data, start + 1, j)
              IN  IF Len(buf) >= min_len
                  THEN [stop |-> FALSE, i |-> j, start |-> start,
                        s |-> decode_ascii_ignore(buf)]
                  ELSE extract_resume(data, min_len, j)
         ELSE extract_resume(data, min_len, i + 1)

-----------------------------------------------------------------------------
(* Specification SpecExtract: extract_ascii_strings is called on a buffer   *)
(* and its generator is driven to exhaustion.                               *)

InitExtract ==
    /\ ex_data \in SeqsUpTo(ByteSamples, MaxData) \cup {<<b>> : b \in 0..255}
    /\ ex_min_len \in 0..MIN_ASCII_LEN
    /\ ex_i = 0
    /\ ex_out = <<>>
    /\ ex_done = FALSE
    /\ IdleCat
    /\ IdleFind
    /\ IdleMains

\* next() on the generator returns a pair
ExtractYield ==
    /\ ~ex_done
    /\ LET r == extract_resume(ex_data, ex_min_len, ex_i)
       IN  /\ ~r.stop
           /\ ex_i' = r.i
           /\ ex_out' = Append(ex_out, <<r.start, r.s>>)
    /\ UNCHANGED <<ex_data, ex_min_len, ex_done, catVars, fbVars, mainVars, scan_text>>

\* next() on the generator raises StopIteration
ExtractStop ==
    /\ ~ex_done
    /\ LET r == extract_resume(ex_data, ex_min_len, ex_i)
       IN  /\ r.stop
           /\ ex_i' = r.i
    /\ ex_done' = TRUE
    /\ UNCHANGED <<ex_data, ex_min_len, ex_out, catVars, fbVars, mainVars, scan_text>>

NextExtract == ExtractYield \/ ExtractStop

SpecExtract == InitExtract /\ [][NextExtract]_vars

-----------------------------------------------------------------------------
(* Claims about extract_ascii_strings, under SpecExtract *)

\* C4: the pairs yielded so far have strictly increasing offsets, and every
\* yielded text is at least min_len long.
C4_IncreasingOffsetsMinLength ==
    /\ \A k \in 1..Len(ex_out) : Len(ex_out[k][2]) >= ex_min_len
    /\ \A k \in 1..(Len(ex_out) - 1) : ex_out[k][1] < ex_out[k + 1][1]

\* an exhausted generator, called with a minimum length of 2 or more, that has
\* yielded two strings
C4_Witness ==
    /\ ex_min_len >= 2
    /\ Len(ex_out) >= 2
    /\ ex_done

-----------------------------------------------------------------------------
(* scan_native_libs.py: find_bytes_all *)

\* scan_native_libs.py:10
MAX_HITS_PER_TERM_PER_FILE == 50

\* bytes.find(needle, start): the lowest offset >= start at which needle occurs
\* in data, or -1
bytes_find(data, needle, start) ==
    LET at == {o \in start..(Len(data) - Len(needle)) :
                  SubSeq(data, o + 1, o + Len(needle)) = needle}
    IN  IF at = {} THEN -1 ELSE CHOOSE o \in at : \A p \in at : o <= p

\* the while loop, resuming the search `step` bytes after each hit
RECURSIVE find_loop(_, _, _, _, _, _)
find_loop(data, needle, max_hits, hits, start, step) ==
    IF ~(Len(hits) < max_hits) THEN hits
    ELSE LET idx == bytes_find(data, needle, start)
         IN  IF idx = -1 THEN hits
             ELSE find_loop(data, needle, max_hits, Append(hits, idx), idx + step, step)

\* find_bytes_all resuming after the whole needle, so skipping overlaps
find_bytes_all_no_overlap(data, needle, max_hits) ==
    IF Len(needle) = 0 THEN <<>>
    ELSE find_loop(data, needle, max_hits, <<>>, 0, Len(needle))

find_bytes_all(data, needle, max_hits) ==
    IF Len(needle) = 0 THEN <<>>
    ELSE find_loop(data, needle, max_hits, <<>>, 0, 1)

-----------------------------------------------------------------------------
(* Specification SpecFind: one call of find_bytes_all *)

InitFind ==
    /\ fb_data \in SeqsUpTo(FindBytes, MaxFindData)
    /\ fb_needle \in SeqsUpTo(FindBytes, MaxNeedle)
    /\ fb_max_hits \in 0..MaxHitsArg
    /\ fb_hits = <<>>
    /\ fb_done = FALSE
    /\ IdleCat
    /\ IdleExtract
    /\ IdleMains

FindBytesAll ==
    /\ ~fb_done
    /\ fb_hits' = find_bytes_all(fb_data, fb_needle, fb_max_hits)
    /\ fb_done' = TRUE
    /\ UNCHANGED <<fb_data, fb_needle, fb_max_hits, catVars, exVars, mainVars, scan_text>>

NextFind == FindBytesAll

SpecFind == InitFind /\ [][NextFind]_vars

-----------------------------------------------------------------------------
(* Claims about find_bytes_all, under SpecFind *)

\* every offset at which needle occurs in data, overlapping occurrences included
Occurrences(data, needle) ==
    {o \in 0..(Len(data) - Len(needle)) : SubSeq(data, o + 1, o + Len(needle)) = needle}

Min(a, b) == IF a <= b THEN a ELSE b

\* "aa" and "aaaa"
NeedleAA == <<97, 97>>

DataAAAA == <<97, 97, 97, 97>>

\* C5: a returned list is ascending; for a non-empty needle it holds exactly
\* the min(max_hits, N) lowest of the N offsets at which the needle occurs,
\* overlapping occurrences counted ("aa" in "aaaa", max_hits >= 3: 0, 1, 2);
\* for an empty needle it is empty.
C5_FirstOccurrencesWithOverlaps ==
    fb_done =>
        LET occ == Occurrences(fb_data, fb_needle)
            got == {fb_hits[k] : k \in 1..Len(fb_hits)}
        IN  /\ \A k \in 1..(Len(fb_hits) - 1) : fb_hits[k] < fb_hits[k + 1]
            /\ fb_needle = <<>> => fb_hits = <<>>
            /\ fb_needle # <<>> =>
                 /\ Len(fb_hits) = Min(fb_max_hits, Cardinality(occ))
                 /\ got \subseteq occ
                 /\ \A o \in occ \ got : \A h \in got : h < o
            /\ (fb_needle = NeedleAA /\ fb_data = DataAAAA /\ fb_max_hits >= 3)
                 => fb_hits = <<0, 1, 2>>

\* the call of the example has returned: "aa" in "aaaa" with max_hits 3
C5_Witness ==
    /\ fb_done
    /\ fb_needle = NeedleAA
    /\ fb_data = DataAAAA
    /\ fb_max_hits = 3
    /\ Len(fb_hits) = 3

-----------------------------------------------------------------------------
(* str.encode and the format specifier 08x *)

IsSurrogate(c) == 55296 <= c /\ c <= 57343

\* one code point in UTF-8; errors="ignore" drops a lone surrogate
utf8_char(c) ==
    IF c < 128 THEN <<c>>
    ELSE IF c < 2048 THEN <<192 + (c \div 64), 128 + (c % 64)>>
    ELSE IF IsSurrogate(c) THEN <<>>
    ELSE IF c < 65536
         THEN <<224 + (c \div 4096), 128 + ((c \div 64) % 64), 128 + (c % 64)>>
         ELSE <<240 + (c \div 262144), 128 + ((c \div 4096) % 64),
                128 + ((c \div 64) % 64), 128 + (c % 64)>>

\* one code point in UTF-16, little-endian; errors="ignore" drops a lone surrogate
utf16le_char(c) ==
    IF IsSurrogate(c) THEN <<>>
    ELSE IF c < 65536 THEN <<c % 256, c \div 256>>
    ELSE LET v  == c - 65536
             hi == 55296 + (v \div 1024)
             lo == 56320 + (v % 1024)
         IN  <<hi % 256, hi \div 256, lo % 256, lo \div 256>>

RECURSIVE encode_from(_, _, _)
encode_from(s, i, utf16) ==
    IF i > Len(s) THEN <<>>
    ELSE (IF utf16 THEN utf16le_char(s[i]) ELSE utf8_char(s[i])) \o encode_from(s, i + 1, utf16)

\* term.encode("utf-8", errors="ignore")
encode_utf8(s) == encode_from(s, 1, FALSE)

\* term.encode("utf-16le", errors="ignore")
encode_utf16le(s) == encode_from(s, 1, TRUE)

HexDigit(d) == IF d < 10 THEN 48 + d ELSE 87 + d

RECURSIVE HexDigits(_)
HexDigits(n) ==
    IF n < 16 THEN <<HexDigit(n)>> ELSE Append(HexDigits(n \div 16), HexDigit(n % 16))

\* f"{off:08x}": lowercase hexadecimal, zero-padded to eight digits
format_08x(off) ==
    LET h == HexDigits(off)
    IN  IF Len(h) >= 8 THEN h ELSE [i \in 1..(8 - Len(h)) |-> 48] \o h

-----------------------------------------------------------------------------
(* scan_native_libs.py: load_search_terms, scan_file_for_terms *)

\* Python's None, in the "term" field of a read_error entry
None == <<-1>>

\* what reading a file gives: its content, or an exception
ReadOk(content) == [ok |-> TRUE, content |-> content]

ReadError == [ok |-> FALSE, detail |-> "OSError"]

RECURSIVE native_load_lines(_, _, _)
native_load_lines(lines, i, acc) ==
    IF i > Len(lines) \/ Len(acc) >= MAX_TERMS THEN acc
    ELSE LET line == strip(lines[i])
         IN  IF line = <<>> \/ startswith(line, <<35>>)
             THEN native_load_lines(lines, i + 1, acc)
             ELSE native_load_lines(lines, i + 1, Append(acc, lower(line)))

\* scan_native_libs.load_search_terms: the terms are stored lowercased
native_load_search_terms(file_text) == native_load_lines(splitlines(file_text), 1, <<>>)

\* the findings appended for one needle's offsets
findings_of(type, term, offs) ==
    [k \in 1..Len(offs) |-> [type |-> type, term |-> term, offset_hex |-> format_08x(offs[k])]]

\* the body of the loop over terms, for one term: the UTF-8 needle, then the
\* UTF-16LE needle (an empty needle is not searched)
term_findings(data, term) ==
    LET b_ascii == encode_utf8(term)
        b_u16   == encode_utf16le(term)
    IN  (IF b_ascii # <<>>
         THEN findings_of("bytes_ascii", term,
                          find_bytes_all(data, b_ascii, MAX_HITS_PER_TERM_PER_FILE))
         ELSE <<>>)
        \o
        (IF b_u16 # <<>>
         THEN findings_of("bytes_utf16le", term,
                          find_bytes_all(data, b_u16, MAX_HITS_PER_TERM_PER_FILE))
         ELSE <<>>)

RECURSIVE scan_terms_from(_, _, _)
scan_terms_from(data, ts, i) ==
    IF i > Len(ts) THEN <<>>
    ELSE term_findings(data, ts[i]) \o scan_terms_from(data, ts, i + 1)

\* scan_file_for_terms, given what path.read_bytes() gave
scan_file_for_terms(read, ts) ==
    IF ~read.ok
    THEN << [type |-> "read_error", term |-> None, detail |-> read.detail] >>
    ELSE scan_terms_from(read.content, ts, 1)

-----------------------------------------------------------------------------
(* scan_native_libs.py: main *)

\* names of the entries of decoded-apks: applications "A", "a", "b" and a
\* plain file "notes.txt"
AppNames == {<<65>>, <<97>>, <<98>>}

NotADirectory == <<110, 111, 116, 101, 115, 46, 116, 120, 116>>

\* relative paths of the libraries under one application: "lib/x.so", "y.so"
SoNames == {<<108, 105, 98, 47, 120, 46, 115, 111>>, <<121, 46, 115, 111>>}

\* the sequences of distinct elements of S, at most n long: the orders in which
\* a directory listing can return n or fewer of the names S
Listings(S, n) ==
    {l \in SeqsUpTo(S, n) : \A i, j \in 1..Len(l) : i # j => l[i] # l[j]}

\* contents of libraries: UTF-16LE "Gaze"; UTF-16LE "gaze"; an ELF-like header
\* with UTF-8 "gaze" and UTF-16LE "foveation"
RawUtf16Gaze == <<71, 0, 97, 0, 122, 0, 101, 0>>

RawUtf16gaze == <<103, 0, 97, 0, 122, 0, 101, 0>>

RawMixed == <<127, 69, 76, 70, 32, 103, 97, 122, 101, 0, 102, 0, 111, 0, 118, 0, 101, 0, 97, 0, 116, 0, 105, 0, 111, 0, 110, 0>>

RawContents == {RawUtf16Gaze, RawUtf16gaze, RawMixed}

\* what read_bytes() on a library can give
RawReads == {ReadOk(c) : c \in RawContents} \cup {ReadError}

\* "# raw terms\nGaze\nfoveation\n"
NativeTermsFileA == <<35, 32, 114, 97, 119, 32, 116, 101, 114, 109, 115, 10, 71, 97, 122, 101, 10, 102, 111, 118, 101, 97, 116, 105, 111, 110, 10>>

\* "gaze\n"
NativeTermsFileB == <<103, 97, 122, 101, 10>>

NativeTermFiles == {NativeTermsFileA, NativeTermsFileB}

\* main() up to the for loop over DECODED_APKS_DIR.iterdir()
InitNativeMain ==
    \E tf \in NativeTermFiles, entries \in Listings(AppNames \cup {NotADirectory}, MaxApps) :
        native_main =
            [pc |-> "loop",
             terms_file |-> tf,
             terms |-> native_load_search_terms(tf),
             entries |-> entries,
             e |-> 0,
             written |-> <<>>,
             reads |-> <<>>]

InitNative ==
    /\ InitNativeMain
    /\ normalize_main = IdleMain
    /\ scan_main = IdleMain
    /\ scan_text = IdleMain
    /\ IdleCat
    /\ IdleExtract
    /\ IdleFind

\* the loop takes an entry that is not a directory: continue
NativeSkipEntry ==
    /\ native_main.pc = "loop"
    /\ native_main.e < Len(native_main.entries)
    /\ native_main.entries[native_main.e + 1] \notin AppNames
    /\ native_main' = [native_main EXCEPT !.e = @ + 1]
    /\ UNCHANGED <<catVars, exVars, fbVars, normalize_main, scan_main, scan_text>>

\* the loop takes an application: list its libraries, start its results
NativeBeginApk ==
    /\ native_main.pc = "loop"
    /\ native_main.e < Len(native_main.entries)
    /\ LET apk_dir == native_main.entries[native_main.e + 1]
       IN  /\ apk_dir \in AppNames
           /\ \E so_files \in Listings(SoNames, MaxFiles) :
                native_main' =
                    [pc |-> "files",
                     terms_file |-> native_main.terms_file,
                     terms |-> native_main.terms,
                     entries |-> native_main.entries,
                     e |-> native_main.e + 1,
                     written |-> native_main.written,
                     reads |-> native_main.reads,
                     apk_dir |-> apk_dir,
                     so_files |-> so_files,
                     f |-> 0,
                     results |-> [apk |-> apk_dir,
                                  summary |-> [so_count |-> Len(so_files),
                                               files_with_term_hits |-> 0,
                                               total_hits |-> 0],
                                  matches |-> <<>>],
                     files_with_hits |-> 0,
                     total_hits |-> 0]
    /\ UNCHANGED <<catVars, exVars, fbVars, normalize_main, scan_main, scan_text>>

\* one iteration of the loop over so_files
NativeScanFile ==
    /\ native_main.pc = "files"
    /\ native_main.f < Len(native_main.so_files)
    /\ \E read \in RawReads :
         LET so_file   == native_main.so_files[native_main.f + 1]
             findings  == scan_file_for_terms(read, native_main.terms)
             term_hits == SelectSeq(findings, LAMBDA x : x.term # None)
             hit       == term_hits # <<>>
         IN  native_main' =
                 [native_main EXCEPT
                    !.f = @ + 1,
                    !.reads = Append(@, [apk |-> native_main.apk_dir, so_file |-> so_file,
                                         read |-> read, findings |-> findings]),
                    !.files_with_hits = IF hit THEN @ + 1 ELSE @,
                    !.total_hits = IF hit THEN @ + Len(term_hits) ELSE @,
                    !.results.matches =
                        IF hit THEN Append(@, [so_file |-> so_file, findings |-> term_hits])
                        ELSE @]
    /\ UNCHANGED <<catVars, exVars, fbVars, normalize_main, scan_main, scan_text>>

\* after the loop over so_files: fill in the summary, write matches.json
NativeWriteApk ==
    /\ native_main.pc = "files"
    /\ native_main.f = Len(native_main.so_files)
    /\ LET results == [native_main.results EXCEPT
                          !.summary.files_with_term_hits = native_main.files_with_hits,
                          !.summary.total_hits = native_main.total_hits]
       IN  native_main' =
               [pc |-> "loop",
                terms_file |-> native_main.terms_file,
                terms |-> native_main.terms,
                entries |-> native_main.entries,
                e |-> native_main.e,
                written |-> Append(native_main.written, results),
                reads |-> native_main.reads]
    /\ UNCHANGED <<catVars, exVars, fbVars, normalize_main, scan_main, scan_text>>

\* the loop over the entries ends and main() returns
NativeReturn ==
    /\ native_main.pc = "loop"
    /\ native_main.e = Len(native_main.entries)
    /\ native_main' = [native_main EXCEPT !.pc = "done"]
    /\ UNCHANGED <<catVars, exVars, fbVars, normalize_main, scan_main, scan_text>>

NextNative ==
    \/ NativeSkipEntry
    \/ NativeBeginApk
    \/ NativeScanFile
    \/ NativeWriteApk
    \/ NativeReturn

SpecNative == InitNative /\ [][NextNative]_vars

-----------------------------------------------------------------------------
(* Claims about the raw scan, under SpecNative *)

\* the lines of a term file that load_search_terms accepts, as written
AcceptedLines(file_text) ==
    LET lines == splitlines(file_text)
        kept  == SelectSeq(lines, LAMBDA l : strip(l) # <<>> /\ ~startswith(strip(l), <<35>>))
    IN  {strip(kept[i]) : i \in 1..Len(kept)}

\* the findings a scan reported for a term-list line
FindingsFor(findings, line) ==
    SelectSeq(findings, LAMBDA x : x.term = line \/ x.term = lower(line))

\* C6 (as claimed): for every accepted term-list line T and every library read
\* whose bytes hold the UTF-16LE encoding of T exactly once and nowhere its
\* UTF-8 encoding, the scan of that library reports exactly one finding for the
\* term, of type bytes_utf16le, whatever the casing of T.
C6_MatchIndependentOfCasing ==
    \A r \in 1..Len(native_main.reads) :
        LET rd == native_main.reads[r]
        IN  rd.read.ok =>
              \A T \in AcceptedLines(native_main.terms_file) :
                  (/\ Cardinality(Occurrences(rd.read.content, encode_utf16le(T))) = 1
                   /\ Occurrences(rd.read.content, encode_utf8(T)) = {})
                  => LET fs == FindingsFor(rd.findings, T)
                     IN  Len(fs) = 1 /\ fs[1].type = "bytes_utf16le"

-----------------------------------------------------------------------------
(* Ordering of strings, sorted(), str(int) *)

\* a < b for two str: by code point, a proper prefix first
LexLess(a, b) ==
    \E k \in 1..(Min(Len(a), Len(b)) + 1) :
        /\ \A j \in 1..(k - 1) : a[j] = b[j]
        /\ \/ k > Len(a) /\ k <= Len(b)
           \/ k <= Len(a) /\ k <= Len(b) /\ a[k] < b[k]

\* sorted(S) for a collection of distinct str
RECURSIVE sorted_set(_)
sorted_set(S) ==
    IF S = {} THEN <<>>
    ELSE LET least == CHOOSE x \in S : \A y \in S : x = y \/ LexLess(x, y)
         IN  <<least>> \o sorted_set(S \ {least})

\* an item put into a list sorted by key, behind every item whose key is not
\* greater: what a stable sort does with the items in their given order
insert_by_key(sorted, item) ==
    LET before == {i \in 1..Len(sorted) : ~LexLess(item.key, sorted[i].key)}
        n      == Cardinality(before)
    IN  SubSeq(sorted, 1, n) \o <<item>> \o SubSeq(sorted, n + 1, Len(sorted))

RECURSIVE sorted_from(_, _, _)
sorted_from(items, i, acc) ==
    IF i > Len(items) THEN acc
    ELSE sorted_from(items, i + 1, insert_by_key(acc, items[i]))

\* sorted(list, key=...): stable; keys[i] is the key of list[i]
sorted_by_key(list, keys) ==
    LET items == [i \in 1..Len(list) |-> [key |-> keys[i], value |-> list[i]]]
        s     == sorted_from(items, 1, <<>>)
    IN  [i \in 1..Len(s) |-> s[i].value]

RECURSIVE DecDigits(_)
DecDigits(n) ==
    IF n < 10 THEN <<48 + n>> ELSE Append(DecDigits(n \div 10), 48 + (n % 10))

\* str(n) for n >= 0
str_int(n) == DecDigits(n)

RECURSIVE Concat(_)
Concat(seqs) == IF seqs = <<>> THEN <<>> ELSE Head(seqs) \o Concat(Tail(seqs))

-----------------------------------------------------------------------------
(* scan_normalized.py: collect_matching_lines, scan_text_file *)

\* scan_normalized.py:9
MAX_EXAMPLES_PER_TERM_PER_FILE == 25

\* the first n elements of a list, or all of it
Take(list, n) == SubSeq(list, 1, Min(n, Len(list)))

\* collect_matching_lines without its limit
collect_matching_lines_unlimited(text, term, limit) ==
    LET t == lower(term)
    IN  SelectSeq(splitlines(text), LAMBDA line : Contains(lower(line), t))

collect_matching_lines(text, term, limit) ==
    LET t == lower(term)
    IN  Take(SelectSeq(splitlines(text), LAMBDA line : Contains(lower(line), t)), limit)

RECURSIVE scan_text_terms(_, _, _)
scan_text_terms(text, ts, i) ==
    IF i > Len(ts) THEN <<>>
    ELSE LET term == ts[i]
         IN  (IF Contains(lower(text), lower(term))
              THEN LET examples == collect_matching_lines(text, term, MAX_EXAMPLES_PER_TERM_PER_FILE)
                       cc       == categorize_term(term)
                   IN  << [term |-> term, category |-> cc[1],
                           category_confidence |-> cc[2], examples |-> examples] >>
              ELSE <<>>)
             \o scan_text_terms(text, ts, i + 1)

\* scan_text_file, given what txt_path.read_text() gave
scan_text_file(read, ts) ==
    IF ~read.ok
    THEN << [type |-> "read_error", term |-> None, detail |-> read.detail] >>
    ELSE scan_text_terms(read.content, ts, 1)

-----------------------------------------------------------------------------
(* scan_normalized.py: main *)

\* "# master-results.txt"
HeaderLine1 == <<35, 32, 109, 97, 115, 116, 101, 114, 45, 114, 101, 115, 117, 108, 116, 115, 46, 116, 120, 116>>

\* "# One report containing only matches from scanning normalized ASCII outputs"
HeaderLine2 == <<35, 32, 79, 110, 101, 32, 114, 101, 112, 111, 114, 116, 32, 99, 111, 110, 116, 97, 105, 110, 105, 110, 103, 32, 111, 110, 108, 121, 32, 109, 97, 116, 99, 104, 101, 115, 32, 102, 114, 111, 109, 32, 115, 99, 97, 110, 110, 105, 110, 103, 32, 110, 111, 114, 109, 97, 108, 105, 122, 101, 100, 32, 65, 83, 67, 73, 73, 32, 111, 117, 116, 112, 117, 116, 115>>

\* "# Grouped by GAME -> FILE -> CATEGORY -> TERM"
HeaderLine3 == <<35, 32, 71, 114, 111, 117, 112, 101, 100, 32, 98, 121, 32, 71, 65, 77, 69, 32, 45, 62, 32, 70, 73, 76, 69, 32, 45, 62, 32, 67, 65, 84, 69, 71, 79, 82, 89, 32, 45, 62, 32, 84, 69, 82, 77>>

\* "# generated_utc: "
HeaderGenerated == <<35, 32, 103, 101, 110, 101, 114, 97, 116, 101, 100, 95, 117, 116, 99, 58, 32>>

\* "===== GAME: "
GamePrefix == <<61, 61, 61, 61, 61, 32, 71, 65, 77, 69, 58, 32>>

\* " ====="
GameSuffix == <<32, 61, 61, 61, 61, 61>>

\* "File: "
FilePrefix == <<70, 105, 108, 101, 58, 32>>

\* "  [CATEGORY] "
CategoryPrefix == <<32, 32, 91, 67, 65, 84, 69, 71, 79, 82, 89, 93, 32>>

\* "    TERM: "
TermPrefix == <<32, 32, 32, 32, 84, 69, 82, 77, 58, 32>>

\* " (confidence="
ConfidencePrefix == <<32, 40, 99, 111, 110, 102, 105, 100, 101, 110, 99, 101, 61>>

\* ")"
ConfidenceSuffix == <<41>>

\* "      "
ExampleIndent == <<32, 32, 32, 32, 32, 32>>

\* "normalized/ascii/"
AsciiDir == <<110, 111, 114, 109, 97, 108, 105, 122, 101, 100, 47, 97, 115, 99, 105, 105, 47>>

\* "high"
TextHigh == <<104, 105, 103, 104>>

\* "medium"
TextMedium == <<109, 101, 100, 105, 117, 109>>

\* "low"
TextLow == <<108, 111, 119>>

\* the confidence as it is written into a line
confidence_text(conf) ==
    IF conf = "high" THEN TextHigh ELSE IF conf = "medium" THEN TextMedium ELSE TextLow

\* datetime.now(timezone.utc).isoformat(): the clock's value is not modelled
Now == <<50, 48, 50, 54>>

\* scan_normalized.py:170
FALLBACK_CATEGORY == CatEyeTrackingEnablement

\* the header main() starts master_lines with
master_header ==
    <<HeaderLine1, HeaderLine2, HeaderLine3, HeaderGenerated \o Now, <<>>, <<>>>>

\* the lines of one hit: its TERM line, its example lines, a blank line
hit_lines(h) ==
    <<TermPrefix \o h.term \o ConfidencePrefix \o confidence_text(h.category_confidence)
        \o ConfidenceSuffix>>
    \o [k \in 1..Len(h.examples) |-> ExampleIndent \o h.examples[k]]
    \o << <<>> >>

\* the lines of one category of a file: its [CATEGORY] line and its hits, in
\* the order they were found
category_lines(cat, term_hits) ==
    LET hs == SelectSeq(term_hits, LAMBDA h : h.category = cat)
    IN  <<CategoryPrefix \o cat>> \o Concat([k \in 1..Len(hs) |-> hit_lines(hs[k])])

\* cats = sorted(by_cat.keys())
sorted_categories(term_hits) ==
    sorted_set({term_hits[k].category : k \in 1..Len(term_hits)})

\* the File block appended to game_block for one artifact with hits
file_block(rel, term_hits) ==
    LET cats == sorted_categories(term_hits)
    IN  <<FilePrefix \o rel>>
        \o Concat([c \in 1..Len(cats) |-> category_lines(cats[c], term_hits)])
        \o << <<>> >>

\* csv_rows_of keeping one row for each distinct term of the artifact
csv_rows_of_distinct_terms(apk, rel, term_hits) ==
    LET first == SelectSeq([k \in 1..Len(term_hits) |-> k],
                           LAMBDA k : \A j \in 1..(k - 1) : term_hits[j].term # term_hits[k].term)
    IN  [n \in 1..Len(first) |->
            [apk |-> apk,
             txt_file |-> rel,
             category |-> term_hits[first[n]].category,
             category_confidence |-> term_hits[first[n]].category_confidence,
             term |-> term_hits[first[n]].term,
             example_count |-> str_int(Len(term_hits[first[n]].examples))]]

\* the rows appended to csv_rows for one artifact with hits
csv_rows_of(apk, rel, term_hits) ==
    [k \in 1..Len(term_hits) |->
        [apk |-> apk,
         txt_file |-> rel,
         category |-> term_hits[k].category,
         category_confidence |-> term_hits[k].category_confidence,
         term |-> term_hits[k].term,
         example_count |-> str_int(Len(term_hits[k].examples))]]

\* all hits of the matches of a results document
all_hits_of(results) ==
    Concat([k \in 1..Len(results.matches) |-> results.matches[k].hits])

\* the enablement-only test without its has_non_enablement half
is_enablement_only_any(results) ==
    LET all_hits == all_hits_of(results)
    IN  \E k \in 1..Len(all_hits) : all_hits[k].category = FALLBACK_CATEGORY

\* the enablement-only test on a results document
is_enablement_only(results) ==
    LET all_hits            == all_hits_of(results)
        has_enablement      == \E k \in 1..Len(all_hits) : all_hits[k].category = FALLBACK_CATEGORY
        has_non_enablement  == \E k \in 1..Len(all_hits) : all_hits[k].category # FALLBACK_CATEGORY
    IN  has_enablement /\ ~has_non_enablement

\* names of the normalized text files under one application: "X.txt", "x.txt"
TxtNames == {<<88, 46, 116, 120, 116>>, <<120, 46, 116, 120, 116>>}

\* "00000000 Eye Tracking on\n"
TxtEnablement == <<48, 48, 48, 48, 48, 48, 48, 48, 32, 69, 121, 101, 32, 84, 114, 97, 99, 107, 105, 110, 103, 32, 111, 110, 10>>

\* "00000010 foveation\n00000020 eye tracking\n00000030 Pupil\n"
TxtAll == <<48, 48, 48, 48, 48, 48, 49, 48, 32, 102, 111, 118, 101, 97, 116, 105, 111, 110, 10, 48, 48, 48, 48, 48, 48, 50, 48, 32, 101, 121, 101, 32, 116, 114, 97, 99, 107, 105, 110, 103, 10, 48, 48, 48, 48, 48, 48, 51, 48, 32, 80, 117, 112, 105, 108, 10>>

\* "00000000 libc.so\n"
TxtNoHit == <<48, 48, 48, 48, 48, 48, 48, 48, 32, 108, 105, 98, 99, 46, 115, 111, 10>>

\* 26 lines "<offset> <letter> pupil" for the letters a to z, the second with
\* "B Pupil", and a line "00000028 libc.so" after the third
TxtMany == <<48, 48, 48, 48, 48, 48, 48, 48, 32, 97, 32, 112, 117, 112, 105, 108, 10, 48, 48, 48, 48, 48, 48, 49, 48, 32, 66, 32, 80, 117, 112, 105, 108, 10, 48, 48, 48, 48, 48, 48, 50, 48, 32, 99, 32, 112, 117, 112, 105, 108, 10, 48, 48, 48, 48, 48, 48, 50, 56, 32, 108, 105, 98, 99, 46, 115, 111, 10, 48, 48, 48, 48, 48, 48, 51, 48, 32, 100, 32, 112, 117, 112, 105, 108, 10, 48, 48, 48, 48, 48, 48, 52, 48, 32, 101, 32, 112, 117, 112, 105, 108, 10, 48, 48, 48, 48, 48, 48, 53, 48, 32, 102, 32, 112, 117, 112, 105, 108, 10, 48, 48, 48, 48, 48, 48, 54, 48, 32, 103, 32, 112, 117, 112, 105, 108, 10, 48, 48, 48, 48, 48, 48, 55, 48, 32, 104, 32, 112, 117, 112, 105, 108, 10, 48, 48, 48, 48, 48, 48, 56, 48, 32, 105, 32, 112, 117, 112, 105, 108, 10, 48, 48, 48, 48, 48, 48, 57, 48, 32, 106, 32, 112, 117, 112, 105, 108, 10, 48, 48, 48, 48, 48, 48, 97, 48, 32, 107, 32, 112, 117, 112, 105, 108, 10, 48, 48, 48, 48, 48, 48, 98, 48, 32, 108, 32, 112, 117, 112, 105, 108, 10, 48, 48, 48, 48, 48, 48, 99, 48, 32, 109, 32, 112, 117, 112, 105, 108, 10, 48, 48, 48, 48, 48, 48, 100, 48, 32, 110, 32, 112, 117, 112, 105, 108, 10, 48, 48, 48, 48, 48, 48, 101, 48, 32, 111, 32, 112, 117, 112, 105, 108, 10, 48, 48, 48, 48, 48, 48, 102, 48, 32, 112, 32, 112, 117, 112, 105, 108, 10, 48, 48, 48, 48, 48, 49, 48, 48, 32, 113, 32, 112, 117, 112, 105, 108, 10, 48, 48, 48, 48, 48, 49, 49, 48, 32, 114, 32, 112, 117, 112, 105, 108, 10, 48, 48, 48, 48, 48, 49, 50, 48, 32, 115, 32, 112, 117, 112, 105, 108, 10, 48, 48, 48, 48, 48, 49, 51, 48, 32, 116, 32, 112, 117, 112, 105, 108, 10, 48, 48, 48, 48, 48, 49, 52, 48, 32, 117, 32, 112, 117, 112, 105, 108, 10, 48, 48, 48, 48, 48, 49, 53, 48, 32, 118, 32, 112, 117, 112, 105, 108, 10, 48, 48, 48, 48, 48, 49, 54, 48, 32, 119, 32, 112, 117, 112, 105, 108, 10, 48, 48, 48, 48, 48, 49, 55, 48, 32, 120, 32, 112, 117, 112, 105, 108, 10, 48, 48, 48, 48, 48, 49, 56, 48, 32, 121, 32, 112, 117, 112, 105, 108, 10, 48, 48, 48, 48, 48, 49, 57, 48, 32, 122, 32, 112, 117, 112, 105, 108, 10>>

TxtContents == {TxtEnablement, TxtAll, TxtNoHit}

\* what read_text() on a normalized text file can give
TxtReads == {ReadOk(c) : c \in TxtContents} \cup {ReadError}

\* "# terms\nfoveation\neye tracking\nPupil\n"
ScanTermsFileA == <<35, 32, 116, 101, 114, 109, 115, 10, 102, 111, 118, 101, 97, 116, 105, 111, 110, 10, 101, 121, 101, 32, 116, 114, 97, 99, 107, 105, 110, 103, 10, 80, 117, 112, 105, 108, 10>>

\* "eye tracking\nEye Tracking\neye tracking\n"
ScanTermsFileDup == <<101, 121, 101, 32, 116, 114, 97, 99, 107, 105, 110, 103, 10, 69, 121, 101, 32, 84, 114, 97, 99, 107, 105, 110, 103, 10, 101, 121, 101, 32, 116, 114, 97, 99, 107, 105, 110, 103, 10>>

ScanTermFiles == {ScanTermsFileA, ScanTermsFileDup}

\* the directories among the entries, sorted by lowercased name
sorted_apk_dirs(entries) ==
    LET dirs == SelectSeq(entries, LAMBDA p : p \in AppNames)
    IN  sorted_by_key(dirs, [i \in 1..Len(dirs) |-> lower(dirs[i])])

\* str(p) of a text file of an application, below scan-results
txt_path(apk, name) == apk \o <<47>> \o AsciiDir \o name

\* main() up to the for loop over apk_dirs
InitScanMain ==
    \E tf \in ScanTermFiles, entries \in Listings(AppNames \cup {NotADirectory}, MaxApps) :
        scan_main =
            [pc |-> "loop",
             terms_file |-> tf,
             terms |-> load_search_terms(tf),
             master_lines |-> master_header,
             csv_rows |-> <<>>,
             enablement_only_apks |-> <<>>,
             apk_dirs |-> sorted_apk_dirs(entries),
             a |-> 0,
             written |-> <<>>,
             reads |-> <<>>]

InitScan ==
    /\ InitScanMain
    /\ native_main = IdleMain
    /\ normalize_main = IdleMain
    /\ scan_text = IdleMain
    /\ IdleCat
    /\ IdleExtract
    /\ IdleFind

\* the fields of scan_main that outlive the processing of one application
ScanGlobals(s) ==
    [pc |-> "loop",
     terms_file |-> s.terms_file,
     terms |-> s.terms,
     master_lines |-> s.master_lines,
     csv_rows |-> s.csv_rows,
     enablement_only_apks |-> s.enablement_only_apks,
     apk_dirs |-> s.apk_dirs,
     a |-> s.a,
     written |-> s.written,
     reads |-> s.reads]

\* the loop takes an application that has no normalized/ascii directory
ScanSkipApk ==
    /\ scan_main.pc = "loop"
    /\ scan_main.a < Len(scan_main.apk_dirs)
    /\ scan_main' = [scan_main EXCEPT !.a = @ + 1]
    /\ UNCHANGED <<catVars, exVars, fbVars, native_main, normalize_main, scan_text>>

\* the loop takes an application: list and sort its text files, start its
\* results and its block of the master report
ScanBeginApk ==
    /\ scan_main.pc = "loop"
    /\ scan_main.a < Len(scan_main.apk_dirs)
    /\ LET apk_out == scan_main.apk_dirs[scan_main.a + 1]
           room    == Min(MaxFiles, MaxReads - Len(scan_main.reads))
           key(n)  == lower(txt_path(apk_out, n))
       IN  \E found \in Listings(TxtNames, room) :
             LET txt_files == sorted_by_key(found, [i \in 1..Len(found) |-> key(found[i])])
             IN  scan_main' =
                     [ScanGlobals(scan_main) EXCEPT !.pc = "files", !.a = @ + 1]
                     @@ [apk_out |-> apk_out,
                         txt_files |-> txt_files,
                         t |-> 0,
                         results |-> [apk |-> apk_out,
                                      timestamp_utc |-> Now,
                                      summary |-> [txt_files_scanned |-> Len(txt_files),
                                                   files_with_hits |-> 0,
                                                   total_term_hits |-> 0],
                                      matches |-> <<>>],
                         files_with_hits |-> 0,
                         total_term_hits |-> 0,
                         game_block |-> <<GamePrefix \o apk_out \o GameSuffix, <<>>>>]
    /\ UNCHANGED <<catVars, exVars, fbVars, native_main, normalize_main, scan_text>>

\* one iteration of the loop over txt_files
ScanTextFile ==
    /\ scan_main.pc = "files"
    /\ scan_main.t < Len(scan_main.txt_files)
    /\ \E read \in TxtReads :
         LET txt       == scan_main.txt_files[scan_main.t + 1]
             rel       == AsciiDir \o txt
             hits      == scan_text_file(read, scan_main.terms)
             term_hits == SelectSeq(hits, LAMBDA h : h.term # None)
             seen      == [scan_main EXCEPT
                             !.t = @ + 1,
                             !.reads = Append(@, [apk |-> scan_main.apk_out, txt |-> txt,
                                                  read |-> read])]
         IN  IF term_hits = <<>>
             THEN scan_main' = seen
             ELSE scan_main' =
                     [seen EXCEPT
                        !.files_with_hits = @ + 1,
                        !.total_term_hits = @ + Len(term_hits),
                        !.results.matches = Append(@, [txt_file |-> rel, hits |-> term_hits]),
                        !.csv_rows = @ \o csv_rows_of(scan_main.apk_out, rel, term_hits),
                        !.game_block = @ \o file_block(rel, term_hits)]
    /\ UNCHANGED <<catVars, exVars, fbVars, native_main, normalize_main, scan_text>>

\* after the loop over txt_files: the summary, the enablement-only test,
\* scan_matches.json, and the application's block if it had hits
ScanWriteApk ==
    /\ scan_main.pc = "files"
    /\ scan_main.t = Len(scan_main.txt_files)
    /\ LET results == [scan_main.results EXCEPT
                          !.summary.files_with_hits = scan_main.files_with_hits,
                          !.summary.total_term_hits = scan_main.total_term_hits]
       IN  scan_main' =
               [ScanGlobals(scan_main) EXCEPT
                  !.enablement_only_apks =
                      IF is_enablement_only(results) THEN Append(@, scan_main.apk_out) ELSE @,
                  !.written = Append(@, results),
                  !.master_lines =
                      IF scan_main.files_with_hits > 0
                      THEN @ \o scan_main.game_block \o << <<>> >>
                      ELSE @]
    /\ UNCHANGED <<catVars, exVars, fbVars, native_main, normalize_main, scan_text>>

\* after the loop over apk_dirs: master-results.txt, scan_summary.csv and
\* enablement_only_apks.txt are written
ScanWriteReports ==
    /\ scan_main.pc = "loop"
    /\ scan_main.a = Len(scan_main.apk_dirs)
    /\ scan_main' =
           [ScanGlobals(scan_main) EXCEPT !.pc = "done"]
           @@ [master_results_txt |-> scan_main.master_lines,
               scan_summary_csv |-> scan_main.csv_rows,
               enablement_only_apks_txt |-> scan_main.enablement_only_apks]
    /\ UNCHANGED <<catVars, exVars, fbVars, native_main, normalize_main, scan_text>>

NextScan ==
    \/ ScanSkipApk
    \/ ScanBeginApk
    \/ ScanTextFile
    \/ ScanWriteApk
    \/ ScanWriteReports

SpecScan == InitScan /\ [][NextScan]_vars

-----------------------------------------------------------------------------
(* normalize.py: normalize_one_so_ascii, main *)

\* all pairs the generator of extract_ascii_strings yields, in order
RECURSIVE extract_from(_, _, _)
extract_from(data, min_len, i) ==
    LET r == extract_resume(data, min_len, i)
    IN  IF r.stop THEN <<>>
        ELSE << <<r.start, r.s>> >> \o extract_from(data, min_len, r.i)

extract_ascii_strings(data, min_len) == extract_from(data, min_len, 0)

\* "__".join(rel.parts): the separators of a relative path become "__"
RECURSIVE rel_key_of(_)
rel_key_of(rel) ==
    IF rel = <<>> THEN <<>>
    ELSE IF Head(rel) = 47 THEN <<95, 95>> \o rel_key_of(Tail(rel))
         ELSE <<Head(rel)>> \o rel_key_of(Tail(rel))

\* "decoded-apks/"
DecodedApksDir == <<100, 101, 99, 111, 100, 101, 100, 45, 97, 112, 107, 115, 47>>

\* "scan-results/"
ScanResultsDir == <<115, 99, 97, 110, 45, 114, 101, 115, 117, 108, 116, 115, 47>>

\* "/normalized/ascii/"
NormalizedAscii == <<47, 110, 111, 114, 109, 97, 108, 105, 122, 101, 100, 47, 97, 115, 99, 105, 105, 47>>

\* ".txt"
TxtSuffix == <<46, 116, 120, 116>>

\* "OSError: " and the exception's text, which is not modelled
ErrorText == <<79, 83, 69, 114, 114, 111, 114, 58, 32>>

\* str(ascii_path), below the repository root
ascii_path_of(apk, rel_key) ==
    ScanResultsDir \o apk \o NormalizedAscii \o rel_key \o TxtSuffix

\* the text normalize_one_so_ascii writes for a buffer: a line
\* f"{off:08x} {s}\n" for every extracted string
ascii_text(data) ==
    LET found == extract_ascii_strings(data, MIN_ASCII_LEN)
    IN  Concat([k \in 1..Len(found) |->
                   format_08x(found[k][1]) \o <<32>> \o found[k][2] \o <<10>>])

\* main() up to the for loop over decoded_apks_dir.iterdir()
InitNormalizeMain ==
    \E entries \in Listings(AppNames \cup {NotADirectory}, MaxApps) :
        normalize_main =
            [pc |-> "loop",
             entries |-> entries,
             e |-> 0,
             written |-> <<>>,
             outputs |-> <<>>,
             reads |-> <<>>]

InitNormalize ==
    /\ InitNormalizeMain
    /\ native_main = IdleMain
    /\ scan_main = IdleMain
    /\ scan_text = IdleMain
    /\ IdleCat
    /\ IdleExtract
    /\ IdleFind

\* what of normalize_main lives across the applications
NormalizeGlobals(s) ==
    [pc |-> "loop", entries |-> s.entries, e |-> s.e, written |-> s.written,
     outputs |-> s.outputs, reads |-> s.reads]

\* the loop takes an entry that is not a directory: continue
NormalizeSkipEntry ==
    /\ normalize_main.pc = "loop"
    /\ normalize_main.e < Len(normalize_main.entries)
    /\ normalize_main.entries[normalize_main.e + 1] \notin AppNames
    /\ normalize_main' = [normalize_main EXCEPT !.e = @ + 1]
    /\ UNCHANGED <<catVars, exVars, fbVars, native_main, scan_main, scan_text>>

\* the loop takes an application: list its libraries, start its meta
NormalizeBeginApk ==
    /\ normalize_main.pc = "loop"
    /\ normalize_main.e < Len(normalize_main.entries)
    /\ LET apk_dir == normalize_main.entries[normalize_main.e + 1]
       IN  /\ apk_dir \in AppNames
           /\ \E so_files \in Listings(SoNames, MaxFiles) :
                normalize_main' =
                    [NormalizeGlobals(normalize_main) EXCEPT !.pc = "files", !.e = @ + 1]
                    @@ [apk_dir |-> apk_dir,
                        so_files |-> so_files,
                        f |-> 0,
                        meta |-> [apk |-> apk_dir,
                                  timestamp_utc |-> Now,
                                  decoded_path |-> DecodedApksDir \o apk_dir,
                                  summary |-> [so_count |-> Len(so_files),
                                               normalized_count |-> 0,
                                               errors |-> 0],
                                  files |-> <<>>],
                        normalized_count |-> 0,
                        errors |-> 0]
    /\ UNCHANGED <<catVars, exVars, fbVars, native_main, scan_main, scan_text>>

\* one iteration of the loop over so_files: the try block, or its except
NormalizeOneSo ==
    /\ normalize_main.pc = "files"
    /\ normalize_main.f < Len(normalize_main.so_files)
    /\ \E read \in RawReads :
         LET rel     == normalize_main.so_files[normalize_main.f + 1]
             so_file == DecodedApksDir \o normalize_main.apk_dir \o <<47>> \o rel
             rel_key == rel_key_of(rel)
             path    == ascii_path_of(normalize_main.apk_dir, rel_key)
             seen    == [normalize_main EXCEPT
                            !.f = @ + 1,
                            !.reads = Append(@, [apk |-> normalize_main.apk_dir,
                                                 so_file |-> rel, read |-> read])]
         IN  IF read.ok
             THEN normalize_main' =
                     [seen EXCEPT
                        !.outputs = Append(@, [path |-> path, text |-> ascii_text(read.content)]),
                        !.meta.files = Append(@, [so_file |-> rel,
                                                  rel_key |-> rel_key,
                                                  normalized_outputs |-> [ascii |-> path]]),
                        !.normalized_count = @ + 1]
             ELSE normalize_main' =
                     [seen EXCEPT
                        !.errors = @ + 1,
                        !.meta.files = Append(@, [so_file |-> so_file,
                                                  error |-> ErrorText])]
    /\ UNCHANGED <<catVars, exVars, fbVars, native_main, scan_main, scan_text>>

\* after the loop over so_files: fill in the summary, write normalize_meta.json
NormalizeWriteApk ==
    /\ normalize_main.pc = "files"
    /\ normalize_main.f = Len(normalize_main.so_files)
    /\ LET meta == [normalize_main.meta EXCEPT
                       !.summary.normalized_count = normalize_main.normalized_count,
                       !.summary.errors = normalize_main.errors]
       IN  normalize_main' =
               [NormalizeGlobals(normalize_main) EXCEPT !.written = Append(@, meta)]
    /\ UNCHANGED <<catVars, exVars, fbVars, native_main, scan_main, scan_text>>

\* the loop over the entries ends and main() returns
NormalizeReturn ==
    /\ normalize_main.pc = "loop"
    /\ normalize_main.e = Len(normalize_main.entries)
    /\ normalize_main' = [normalize_main EXCEPT !.pc = "done"]
    /\ UNCHANGED <<catVars, exVars, fbVars, native_main, scan_main, scan_text>>

NextNormalize ==
    \/ NormalizeSkipEntry
    \/ NormalizeBeginApk
    \/ NormalizeOneSo
    \/ NormalizeWriteApk
    \/ NormalizeReturn

SpecNormalize == InitNormalize /\ [][NextNormalize]_vars

-----------------------------------------------------------------------------
(* Claims about the normalized-text scan, under SpecScan *)

\* the applications whose results document has been written
FinishedApks == {scan_main.written[k].apk : k \in 1..Len(scan_main.written)}

\* the reads of an application's text files that gave text
GoodReads(apk) ==
    {r \in 1..Len(scan_main.reads) :
        scan_main.reads[r].apk = apk /\ scan_main.reads[r].read.ok}

\* whether the term of line i of the term list occurs in what read r gave,
\* whatever the casing
Occurs(r, i) ==
    Contains(lower(scan_main.reads[r].read.content), lower(scan_main.terms[i]))

\* the categories of all hits of an application, over all of its artifacts
HitCategories(apk) ==
    {categorize_term(scan_main.terms[i])[1] :
        i \in {j \in 1..Len(scan_main.terms) : \E r \in GoodReads(apk) : Occurs(r, j)}}

Listed(apk) ==
    \E k \in 1..Len(scan_main.enablement_only_apks) : scan_main.enablement_only_apks[k] = apk

\* C7: an application whose processing has ended is in the enablement-only
\* list exactly if it has at least one hit over all of its artifacts and every
\* such hit is of category "Eye-Tracking Enablement" (so never with zero hits,
\* and never with a hit of another category in the same or another artifact);
\* it is listed once, no other name is listed, and the list is what is written
\* to enablement_only_apks.txt.
C7_EnablementOnlyIff ==
    /\ \A apk \in FinishedApks :
         Listed(apk) <=> (HitCategories(apk) # {} /\ HitCategories(apk) \subseteq {FALLBACK_CATEGORY})
    /\ \A k \in 1..Len(scan_main.enablement_only_apks) :
         /\ scan_main.enablement_only_apks[k] \in FinishedApks
         /\ \A j \in 1..(k - 1) : scan_main.enablement_only_apks[j] # scan_main.enablement_only_apks[k]
    /\ scan_main.pc = "done" => scan_main.enablement_only_apks_txt = scan_main.enablement_only_apks

\* a finished run with one application listed, and another, not listed, that
\* has a baseline hit and a hit of another category
C7_Witness ==
    /\ scan_main.pc = "done"
    /\ \E a1, a2 \in FinishedApks :
         /\ Listed(a1)
         /\ ~Listed(a2)
         /\ FALLBACK_CATEGORY \in HitCategories(a2)
         /\ HitCategories(a2) \ {FALLBACK_CATEGORY} # {}

\* the category named by a [CATEGORY] line of the master report
IsCategoryLine(line) == startswith(line, CategoryPrefix)

CategoryOf(line) == SubSeq(line, Len(CategoryPrefix) + 1, Len(line))

IsFileLine(line) == startswith(line, FilePrefix)

\* C8 (as claimed): of two [CATEGORY] lines of one File block of the master
\* report, the earlier is not the fallback category "Eye-Tracking Enablement",
\* and the later is the fallback category or lexicographically greater.
C8_FallbackCategoryLast ==
    LET ml == scan_main.master_lines
    IN  \A i, j \in 1..Len(ml) :
            (/\ i < j
             /\ IsCategoryLine(ml[i])
             /\ IsCategoryLine(ml[j])
             /\ \A k \in i..j : ~IsFileLine(ml[k]))
            => /\ CategoryOf(ml[i]) # FALLBACK_CATEGORY
               /\ \/ CategoryOf(ml[j]) = FALLBACK_CATEGORY
                  \/ LexLess(CategoryOf(ml[i]), CategoryOf(ml[j]))

\* the distinct (app, artifact, category, term) occurrences of a run
DistinctOccurrences ==
    {<<scan_main.reads[r].apk, scan_main.reads[r].txt,
       categorize_term(scan_main.terms[i])[1], scan_main.terms[i]>> :
        <<r, i>> \in {p \in (1..Len(scan_main.reads)) \X (1..Len(scan_main.terms)) :
                        scan_main.reads[p[1]].read.ok /\ Occurs(p[1], p[2])}}

\* the occurrences of a run counted by term-list line: (read, line) pairs
LineOccurrences ==
    {p \in (1..Len(scan_main.reads)) \X (1..Len(scan_main.terms)) :
        scan_main.reads[p[1]].read.ok /\ Occurs(p[1], p[2])}

\* whether some term stands on more than one line of the loaded list
HasDuplicateTerms ==
    \E i, j \in 1..Len(scan_main.terms) : i # j /\ scan_main.terms[i] = scan_main.terms[j]

\* C9 (as claimed): after a complete run scan_summary.csv has as many data
\* rows as there are distinct (app, artifact, category, term) occurrences.
C9_RowsEqualDistinctOccurrences ==
    scan_main.pc = "done" =>
        Len(scan_main.scan_summary_csv) = Cardinality(DistinctOccurrences)

\* C9 (amended): after a complete run scan_summary.csv has one data row for
\* every artifact and every line of the term list whose term occurs in the
\* artifact; that is the number of distinct (app, artifact, category, term)
\* occurrences when no term stands on more than one line, and is greater when
\* a term that occurs is repeated in the list.
C9_RowsPerTermLine ==
    scan_main.pc = "done" =>
        /\ Len(scan_main.scan_summary_csv) = Cardinality(LineOccurrences)
        /\ ~HasDuplicateTerms =>
             Len(scan_main.scan_summary_csv) = Cardinality(DistinctOccurrences)
        /\ Len(scan_main.scan_summary_csv) >= Cardinality(DistinctOccurrences)

\* a finished run whose term list repeats a term that occurred in an artifact,
\* so that it wrote more rows than there are distinct occurrences
C9_Witness ==
    /\ scan_main.pc = "done"
    /\ HasDuplicateTerms
    /\ Len(scan_main.scan_summary_csv) > Cardinality(DistinctOccurrences)

-----------------------------------------------------------------------------
(* Read failures in the three stages *)

\* whether an entry of a results document is an error entry
IsErrorEntry(x) ==
    \/ "error" \in DOMAIN x
    \/ "type" \in DOMAIN x /\ x.type = "read_error"

\* the error entries a normalize_meta.json holds for a library
NormalizeErrorEntries(doc, rel) ==
    {k \in 1..Len(doc.files) :
        /\ IsErrorEntry(doc.files[k])
        /\ doc.files[k].so_file = DecodedApksDir \o doc.apk \o <<47>> \o rel}

\* the error entries a matches.json holds for a library
NativeErrorEntries(doc, rel) ==
    {k \in 1..Len(doc.matches) :
        /\ doc.matches[k].so_file = rel
        /\ \E n \in 1..Len(doc.matches[k].findings) : IsErrorEntry(doc.matches[k].findings[n])}

\* the error entries a scan_matches.json holds for a text file
ScanErrorEntries(doc, txt) ==
    {k \in 1..Len(doc.matches) :
        /\ doc.matches[k].txt_file = AsciiDir \o txt
        /\ \E n \in 1..Len(doc.matches[k].hits) : IsErrorEntry(doc.matches[k].hits[n])}

\* the failed reads of a run that belong to an application
FailedReads(reads, apk) ==
    {r \in 1..Len(reads) : reads[r].apk = apk /\ ~reads[r].read.ok}

\* the error tally of a results document is n
TallyIs(doc, n) == "errors" \in DOMAIN doc.summary /\ doc.summary.errors = n

\* the normalize stage: every failed read of a library has its error entry in
\* the application's normalize_meta.json, the tally counts the failed reads,
\* and every listed library of every application was read
NormalizeRecordsReadFailures ==
    /\ \A d \in 1..Len(normalize_main.written) :
         LET doc == normalize_main.written[d]
             bad == FailedReads(normalize_main.reads, doc.apk)
         IN  /\ \A r \in bad :
                   NormalizeErrorEntries(doc, normalize_main.reads[r].so_file) # {}
             /\ TallyIs(doc, Cardinality(bad))
             /\ doc.summary.so_count =
                  Cardinality({r \in 1..Len(normalize_main.reads) :
                                  normalize_main.reads[r].apk = doc.apk})
    /\ normalize_main.pc = "done" =>
         \A e \in 1..Len(normalize_main.entries) :
             normalize_main.entries[e] \in AppNames =>
                 \E d \in 1..Len(normalize_main.written) :
                     normalize_main.written[d].apk = normalize_main.entries[e]

\* the raw scan: the same, for matches.json, the tally being asked for when
\* a read failed
NativeRecordsReadFailures ==
    \A d \in 1..Len(native_main.written) :
        LET doc == native_main.written[d]
            bad == FailedReads(native_main.reads, doc.apk)
        IN  /\ \A r \in bad : NativeErrorEntries(doc, native_main.reads[r].so_file) # {}
            /\ bad # {} => TallyIs(doc, Cardinality(bad))
            /\ doc.summary.so_count =
                 Cardinality({r \in 1..Len(native_main.reads) :
                                 native_main.reads[r].apk = doc.apk})

\* the normalized-text scan: the same, for scan_matches.json
ScanRecordsReadFailures ==
    \A d \in 1..Len(scan_main.written) :
        LET doc == scan_main.written[d]
            bad == FailedReads(scan_main.reads, doc.apk)
        IN  /\ \A r \in bad : ScanErrorEntries(doc, scan_main.reads[r].txt) # {}
            /\ bad # {} => TallyIs(doc, Cardinality(bad))
            /\ doc.summary.txt_files_scanned =
                 Cardinality({r \in 1..Len(scan_main.reads) :
                                 scan_main.reads[r].apk = doc.apk})

\* C10 (as claimed): in each of the three stages, a failed read of an artifact
\* is recorded as an error entry for that artifact in the application's results
\* document and counted in the document's error tally, and the other artifacts
\* of the application and of later applications are still processed.
C10_ReadFailuresRecorded ==
    /\ normalize_main.pc # "idle" => NormalizeRecordsReadFailures
    /\ native_main.pc # "idle" => NativeRecordsReadFailures
    /\ scan_main.pc # "idle" => ScanRecordsReadFailures

\* what the scan stages do keep of C10: a failed read stops nothing; every
\* listed artifact of every application is read, and every application gets
\* its results document
ScanContinuesAfterReadFailure ==
    /\ \A d \in 1..Len(scan_main.written) :
         scan_main.written[d].summary.txt_files_scanned =
             Cardinality({r \in 1..Len(scan_main.reads) :
                             scan_main.reads[r].apk = scan_main.written[d].apk})
    /\ scan_main.pc = "done" => scan_main.a = Len(scan_main.apk_dirs)

NativeContinuesAfterReadFailure ==
    /\ \A d \in 1..Len(native_main.written) :
         native_main.written[d].summary.so_count =
             Cardinality({r \in 1..Len(native_main.reads) :
                             native_main.reads[r].apk = native_main.written[d].apk})
    /\ native_main.pc = "done" => native_main.e = Len(native_main.entries)

-----------------------------------------------------------------------------
(* The runs extract_ascii_strings yields, under SpecExtract *)

\* the printable bytes as the claim gives them
PrintableByte(b) == b = 9 \/ (32 <= b /\ b <= 126)

\* the maximal runs of printable bytes of a buffer, as <<a, b>>: the run is
\* data[a], ..., data[b - 1] (0-based), it is not empty, and it cannot be
\* extended on either side
MaximalRuns(data) ==
    {ab \in (0..Len(data)) \X (0..Len(data)) :
        /\ ab[1] < ab[2]
        /\ \A p \in (ab[1] + 1)..ab[2] : PrintableByte(data[p])
        /\ ab[1] = 0 \/ ~PrintableByte(data[ab[1]])
        /\ ab[2] = Len(data) \/ ~PrintableByte(data[ab[2] + 1])}

\* what the generator is to yield for a buffer: offset and text of every
\* maximal run that is at least min_len long
ExpectedStrings(data, min_len) ==
    {<<ab[1], SubSeq(data, ab[1] + 1, ab[2])>> :
        ab \in {r \in MaximalRuns(data) : r[2] - r[1] >= min_len}}

Yielded(out) == {out[k] : k \in 1..Len(out)}

\* the buffer with the byte at 0-based position p replaced by nb
Replaced(data, p, nb) == [data EXCEPT ![p + 1] = nb]

\* replacing the printable byte at p by the non-printable nb: no yielded
\* string spans p, and the part of the run left of p, and the part right of
\* p, when it has a byte at all, is yielded exactly if it is min_len long
SplitsRunAt(data, min_len, p, nb) ==
    LET run   == CHOOSE ab \in MaximalRuns(data) : ab[1] <= p /\ p < ab[2]
        out   == Yielded(extract_ascii_strings(Replaced(data, p, nb), min_len))
        left  == <<run[1], SubSeq(data, run[1] + 1, p)>>
        right == <<p + 1, SubSeq(data, p + 2, run[2])>>
    IN  /\ \A y \in out : ~(y[1] <= p /\ p < y[1] + Len(y[2]))
        /\ p - run[1] >= 1 => (left \in out <=> p - run[1] >= min_len)
        /\ run[2] - p - 1 >= 1 => (right \in out <=> run[2] - p - 1 >= min_len)

\* C11: every pair the generator has yielded is the offset and text of a
\* maximal run of printable bytes (b = 9 or 32 <= b <= 126) at least min_len
\* long; once exhausted it has yielded every such run, each once; and when a
\* byte inside a run is replaced by a non-printable byte, no string of the new
\* buffer spans that position and the left and the right remainder of the run
\* are each yielded exactly if min_len long.
C11_MaximalPrintableRuns ==
    /\ Yielded(ex_out) \subseteq ExpectedStrings(ex_data, ex_min_len)
    /\ ex_done =>
         /\ Yielded(ex_out) = ExpectedStrings(ex_data, ex_min_len)
         /\ Len(ex_out) = Cardinality(ExpectedStrings(ex_data, ex_min_len))
         /\ \A p \in 0..(Len(ex_data) - 1), nb \in {b \in ByteSamples : ~PrintableByte(b)} :
                PrintableByte(ex_data[p + 1]) => SplitsRunAt(ex_data, ex_min_len, p, nb)

\* an exhausted generator over a buffer with a tab in a run that was yielded,
\* a run too short to be yielded, and a run of min_len + 1 bytes or more, whose
\* split leaves one remainder that is yielded and one that is not
C11_Witness ==
    /\ ex_done
    /\ ex_min_len >= 2
    /\ \E y \in Yielded(ex_out) : \E k \in 1..Len(y[2]) : y[2][k] = 9
    /\ \E ab \in MaximalRuns(ex_data) : ab[2] - ab[1] < ex_min_len
    /\ \E ab \in MaximalRuns(ex_data) : ab[2] - ab[1] >= ex_min_len + 1

-----------------------------------------------------------------------------
(* Specification SpecScanText: scan_text_file is called on a text file and   *)
(* a loaded term list, and runs term by term to its return.                 *)

\* most lines of the term file the list is loaded from
MaxTermLines == 2

\* lines a term file is made of: "foveation", "eye tracking", "Eye Tracking",
\* " Pupil " (padded), "libssl", and the comment "# terms"
TermLinePool ==
    {<<102, 111, 118, 101, 97, 116, 105, 111, 110>>,
     <<101, 121, 101, 32, 116, 114, 97, 99, 107, 105, 110, 103>>,
     <<69, 121, 101, 32, 84, 114, 97, 99, 107, 105, 110, 103>>,
     <<32, 80, 117, 112, 105, 108, 32>>,
     <<108, 105, 98, 115, 115, 108>>,
     <<35, 32, 116, 101, 114, 109, 115>>}

\* the term file with the given lines
term_file_of(lines) == Concat([k \in 1..Len(lines) |-> lines[k] \o <<10>>])

\* what read_text() can give to scan_text_file
ScanTextReads == {ReadOk(c) : c \in TxtContents \cup {TxtMany, <<>>}} \cup {ReadError}

InitScanText ==
    /\ \E read \in ScanTextReads, lines \in SeqsUpTo(TermLinePool, MaxTermLines) :
         scan_text = [pc |-> "call",
                      read |-> read,
                      terms |-> load_search_terms(term_file_of(lines))]
    /\ native_main = IdleMain
    /\ normalize_main = IdleMain
    /\ scan_main = IdleMain
    /\ IdleCat
    /\ IdleExtract
    /\ IdleFind

\* read_text raises: the read_error entry is returned
ScanTextReadError ==
    /\ scan_text.pc = "call"
    /\ ~scan_text.read.ok
    /\ scan_text' = [pc |-> "done", read |-> scan_text.read, terms |-> scan_text.terms,
                     returned |-> scan_text_file(scan_text.read, <<>>)]
    /\ UNCHANGED <<catVars, exVars, fbVars, mainVars>>

\* read_text gives the text: lower_text, hits = []
ScanTextRead ==
    /\ scan_text.pc = "call"
    /\ scan_text.read.ok
    /\ scan_text' = [pc |-> "loop", read |-> scan_text.read, terms |-> scan_text.terms,
                     text |-> scan_text.read.content, i |-> 0, hits |-> <<>>]
    /\ UNCHANGED <<catVars, exVars, fbVars, mainVars>>

\* one iteration of the loop over terms
ScanTextTerm ==
    /\ scan_text.pc = "loop"
    /\ scan_text.i < Len(scan_text.terms)
    /\ scan_text' =
           [scan_text EXCEPT
              !.i = @ + 1,
              !.hits = @ \o scan_text_terms(scan_text.text,
                                            <<scan_text.terms[scan_text.i + 1]>>, 1)]
    /\ UNCHANGED <<catVars, exVars, fbVars, mainVars>>

\* the loop over terms ends: return hits
ScanTextReturn ==
    /\ scan_text.pc = "loop"
    /\ scan_text.i = Len(scan_text.terms)
    /\ scan_text' = [pc |-> "done", read |-> scan_text.read, terms |-> scan_text.terms,
                     returned |-> scan_text.hits]
    /\ UNCHANGED <<catVars, exVars, fbVars, mainVars>>

NextScanText ==
    \/ ScanTextReadError
    \/ ScanTextRead
    \/ ScanTextTerm
    \/ ScanTextReturn

SpecScanText == InitScanText /\ [][NextScanText]_vars

-----------------------------------------------------------------------------
(* Claims about scan_text_file, under SpecScanText *)

\* the element of a set of numbers that has k - 1 smaller elements in it
NthOf(S, k) == CHOOSE x \in S : Cardinality({y \in S : y <= x}) = k

\* the entries among the first n of a term list that occur in the text,
\* whatever the casing
PresentTerms(text, ts, n) ==
    {i \in 1..n : Contains(lower(text), lower(ts[i]))}

\* the lines of the text that contain the term, whatever the casing
MatchingLines(text, term) ==
    {j \in 1..Len(splitlines(text)) : Contains(lower(splitlines(text)[j]), lower(term))}

\* the first MAX_EXAMPLES_PER_TERM_PER_FILE of them, in file order
FirstMatchingLines(text, term) ==
    LET M == MatchingLines(text, term)
    IN  [e \in 1..Min(Cardinality(M), MAX_EXAMPLES_PER_TERM_PER_FILE) |->
            splitlines(text)[NthOf(M, e)]]

\* hits is what the claim describes for the first n entries of the term list
HitsAsClaimed(hits, text, ts, n) ==
    LET P == PresentTerms(text, ts, n)
    IN  /\ Len(hits) = Cardinality(P)
        /\ \A k \in 1..Len(hits) :
             LET term == ts[NthOf(P, k)]
             IN  /\ hits[k].term = term
                 /\ hits[k].examples = FirstMatchingLines(text, term)
                 /\ Len(hits[k].examples) >= 1
                 /\ Len(hits[k].examples) <= MAX_EXAMPLES_PER_TERM_PER_FILE
                 /\ <<hits[k].category, hits[k].category_confidence>> = categorize_term(term)

\* C12: for a text that could be read, the hits gathered after i terms, and
\* the hits returned, are one per entry of the term list so far that occurs in
\* the text whatever the casing, in the order of the list, none for an absent
\* term; each has as examples the first up to MAX_EXAMPLES_PER_TERM_PER_FILE
\* lines, in file order, that contain the term whatever the casing, at least
\* one and at most that many, and the category and confidence of
\* categorize_term(term).
C12_HitsPerPresentTerm ==
    /\ scan_text.pc = "loop" =>
         HitsAsClaimed(scan_text.hits, scan_text.text, scan_text.terms, scan_text.i)
    /\ scan_text.pc = "done" /\ scan_text.read.ok =>
         HitsAsClaimed(scan_text.returned, scan_text.read.content, scan_text.terms,
                       Len(scan_text.terms))

\* a returned call over a text in which more lines than
\* MAX_EXAMPLES_PER_TERM_PER_FILE contain a term, written in another casing in
\* one of them, with a hit that has exactly that many examples, and with a
\* term of the list that is absent from the text
C12_Witness ==
    /\ scan_text.pc = "done"
    /\ scan_text.read.ok
    /\ Len(scan_text.returned) < Len(scan_text.terms)
    /\ \E k \in 1..Len(scan_text.returned) :
         /\ Len(scan_text.returned[k].examples) = MAX_EXAMPLES_PER_TERM_PER_FILE
         /\ Cardinality(MatchingLines(scan_text.read.content, scan_text.returned[k].term))
              > MAX_EXAMPLES_PER_TERM_PER_FILE
         /\ \E e \in 1..Len(scan_text.returned[k].examples) :
              ~Contains(scan_text.returned[k].examples[e], scan_text.returned[k].term)

-----------------------------------------------------------------------------
(* The processing order of the normalized-text scan, under SpecScan *)

\* the orders in which a directory listing can return the names of a list
Reorderings(list) ==
    {l \in Listings({list[k] : k \in 1..Len(list)}, Len(list)) : Len(l) = Len(list)}

\* the text files of an application in the order main() takes them, had the
\* listing returned them as found
sorted_txt_files(apk, found) ==
    sorted_by_key(found, [i \in 1..Len(found) |-> lower(txt_path(apk, found[i]))])

\* C13 (as claimed): the order in which the run takes the applications, and
\* the text files of the application it is at, is the order any run over the
\* same names takes them in, whatever order the listing returns the names in,
\* names that differ only in letter case included.
C13_OrderDeterminedByNames ==
    /\ scan_main.pc # "idle" =>
         \A l \in Reorderings(scan_main.apk_dirs) : sorted_apk_dirs(l) = scan_main.apk_dirs
    /\ scan_main.pc = "files" =>
         \A l \in Reorderings(scan_main.txt_files) :
             sorted_txt_files(scan_main.apk_out, l) = scan_main.txt_files

\* the same, for runs in which no two names differ only in letter case: this
\* part of the claim the code keeps
OrderDeterminedByNamesApartFromCase ==
    /\ (/\ scan_main.pc # "idle"
        /\ \A i, j \in 1..Len(scan_main.apk_dirs) :
             i # j => lower(scan_main.apk_dirs[i]) # lower(scan_main.apk_dirs[j]))
       => \A l \in Reorderings(scan_main.apk_dirs) : sorted_apk_dirs(l) = scan_main.apk_dirs
    /\ (/\ scan_main.pc = "files"
        /\ \A i, j \in 1..Len(scan_main.txt_files) :
             i # j => lower(scan_main.txt_files[i]) # lower(scan_main.txt_files[j]))
       => \A l \in Reorderings(scan_main.txt_files) :
             sorted_txt_files(scan_main.apk_out, l) = scan_main.txt_files

====
